---- MODULE Spec2Model ----
(***************************************************************************)
(* Deterministic core of the QualAI qualitative-analysis tools: the        *)
(* hierarchy depth calculator (refineCodebook), the codebook and theme     *)
(* quality validators (qualityValidation, with validateGroundedTheory),    *)
(* the TheoryEngine (core category, paradigm model, category               *)
(* relationships, storyline, propositions), validateMethodologyStructure   *)
(* and checkSaturation, the three tool operations around the text service  *)
(* (refineCodebook, extractThemes, buildGroundedTheory) from the reply to  *)
(* the response, and two calls of the core in progress at once.            *)
(***************************************************************************)
EXTENDS Integers, Sequences, FiniteSets, TLC

VARIABLES
    hierarchy,      \* CodeHierarchy handed to calculateHierarchyDepth
    depthPc,        \* "idle" | "running" | "returned" | "RangeError"
    callStack,      \* activation records of getDepth, innermost last
    rootIdx,        \* position of the for-of loop over hierarchy.rootCodes
    maxDepth,       \* local maxDepth of calculateHierarchyDepth
    depthResult,    \* value returned by calculateHierarchyDepth
    validator,      \* "none" | "validateCodebook" | "validateThemes" |
                    \* "validateGroundedTheory"
    qualityPc,      \* "idle" | "called" | "returned"
    codebook,       \* Codebook handed to validateCodebook
    themes,         \* Theme[] handed to validateThemes
    theory,         \* GroundedTheory handed to validateGroundedTheory
    totalDataPoints,    \* second argument of validateThemes
    qualityAssessment,  \* QualityAssessment returned by the validator
    theoryPc,       \* "idle" | "called" | "returned"
    theoryThemes,   \* params.themes of TheoryEngine.buildGroundedTheory
    coreCategory,   \* result of identifyCoreCategory
    paradigmModel,  \* result of buildParadigmModel
    relationships,  \* result of mapCategoryRelationships
    storyline,      \* result of generateStoryline
    theoreticalPropositions,    \* result of generatePropositions
    title,          \* title of the returned GroundedTheory
    callee,         \* "none" | "formatList" | "generateStoryline" |
                    \* "generatePropositions" | "validateMethodologyStructure" |
                    \* "checkSaturation", called by itself
    calleePc,       \* "idle" | "called" | "returned"
    callArgs,       \* the arguments of that call
    callResult,     \* the value it returned
    extractPc,      \* "idle" | "parsed" | "returned"
    rawDataLength,  \* rawData.length of the extractThemes call
    extractRequest, \* the fields of the ThemeExtractionRequest that are branched on
    extractionResult,   \* the parsed reply: themes and uncategorizedCodes
    extractResponse,    \* ThemeExtractionResponse returned by extractThemes
    tool,           \* "none" | "refineCodebook" | "extractThemes" |
                    \* "buildGroundedTheory": the tool operation requested
    toolPc,         \* "idle" | "prompted" | "replied" | "returned" | "failed"
    toolInput,      \* the arguments of the request that are branched on
    serviceCalls,   \* calls of anthropicClient.messages.create so far
    content,        \* response.content[0] of the text service
    toolAssessment, \* the local qualityAssessment of the operation
    toolResponse,   \* the response object the operation resolves with
    toolError,      \* message of the error it rejects with, "" for none
    arrays,         \* the theme arrays that calls in progress were handed
    calls           \* two calls in progress: kind, the array handed over,
                    \* position and locals of each

depthVars == <<hierarchy, depthPc, callStack, rootIdx, maxDepth, depthResult>>

qualityVars ==
    <<validator, qualityPc, codebook, themes, theory, totalDataPoints, qualityAssessment>>

theoryVars ==
    <<theoryPc, theoryThemes, coreCategory, paradigmModel, relationships,
      storyline, theoreticalPropositions, title>>

calleeVars == <<callee, calleePc, callArgs, callResult>>

extractVars ==
    <<extractPc, rawDataLength, extractRequest, extractionResult, extractResponse>>

toolVars ==
    <<tool, toolPc, toolInput, serviceCalls, content, toolAssessment,
      toolResponse, toolError>>

parallelVars == <<arrays, calls>>

vars ==
    <<depthVars, qualityVars, theoryVars, extractVars, calleeVars, toolVars,
      parallelVars>>

nonDepthVars ==
    <<qualityVars, theoryVars, extractVars, calleeVars, toolVars, parallelVars>>

nonQualityVars ==
    <<depthVars, theoryVars, extractVars, calleeVars, toolVars, parallelVars>>

nonTheoryVars ==
    <<depthVars, qualityVars, extractVars, calleeVars, toolVars, parallelVars>>

nonExtractVars ==
    <<depthVars, qualityVars, theoryVars, calleeVars, toolVars, parallelVars>>

nonCalleeVars ==
    <<depthVars, qualityVars, theoryVars, extractVars, toolVars, parallelVars>>

nonToolVars ==
    <<depthVars, qualityVars, theoryVars, extractVars, calleeVars, parallelVars>>

nonParallelVars ==
    <<depthVars, qualityVars, theoryVars, extractVars, calleeVars, toolVars>>

----------------------------------------------------------------------------
(* Bounds *)

MaxCodes == 4       \* code identifiers that may occur in a hierarchy
MaxEdges == 3       \* parent->child entries in hierarchy.relationships
MaxRoots == 1       \* length of hierarchy.rootCodes
MaxCallStack == 6   \* activation records the runtime can hold
MaxCodebook == 3    \* codes in a codebook handed to validateCodebook
MaxThemes == 2      \* themes handed to validateThemes
MaxCategories == 2  \* themes handed to TheoryEngine.buildGroundedTheory
MaxExtracted == 3   \* themes in the reply extractThemes parses
MaxItems == 3       \* items handed to TheoryEngine.formatList
MaxRelationships == 6   \* relationships handed to TheoryEngine.generatePropositions
MaxPrevalent == 4   \* themes handed to TheoryEngine.generatePropositions
MaxStages == 3      \* stages of a methodology
MaxBatches == 4     \* data batches handed to checkSaturation
MaxRefined == 2     \* refined codes in the reply refineCodebook parses
MaxSaturated == 3   \* themes handed to the buildGroundedTheory tool
MaxParallel == 2    \* themes in an array handed to one of two calls in progress

----------------------------------------------------------------------------
(* Generic helpers *)

Range(s) == {s[i] : i \in 1..Len(s)}

SeqsUpTo(S, n) == UNION {[1..k -> S] : k \in 0..n}

MaxOfSet(S) == CHOOSE m \in S : \A x \in S : x <= m

MinOfSet(S) == CHOOSE m \in S : \A x \in S : m <= x

----------------------------------------------------------------------------
(* Strings: a string value is kept as written; its characters, which      *)
(* length, toLowerCase and includes work on, are looked up here.          *)

StringChars ==
    ("Joy" :> <<"J", "o", "y">>)
    @@ ("joy" :> <<"j", "o", "y">>)
    @@ ("Fear" :> <<"F", "e", "a", "r">>)
    @@ ("short text" :> <<"s", "h", "o", "r", "t", " ", "t", "e", "x", "t">>)
    @@ ("a long text" :> <<"a", " ", "l", "o", "n", "g", " ", "t", "e", "x", "t">>)
    @@ ("" :> <<>>)
    @@ ("short idea" :> <<"s", "h", "o", "r", "t", " ", "i", "d", "e", "a">>)
    @@ ("a long idea" :> <<"a", " ", "l", "o", "n", "g", " ", "i", "d", "e", "a">>)
    @@ ("matters a lot" :> <<"m", "a", "t", "t", "e", "r", "s", " ", "a", " ", "l", "o", "t">>)
    @@ ("Coping with uncertainty" :> <<"C", "o", "p", "i", "n", "g", " ", "w", "i", "t", "h", " ", "u", "n", "c", "e", "r", "t", "a", "i", "n", "t", "y">>)
    @@ ("Trigger in context" :> <<"T", "r", "i", "g", "g", "e", "r", " ", "i", "n", " ", "c", "o", "n", "t", "e", "x", "t">>)
    @@ ("Result from action" :> <<"R", "e", "s", "u", "l", "t", " ", "f", "r", "o", "m", " ", "a", "c", "t", "i", "o", "n">>)
    @@ ("Outcome of influence" :> <<"O", "u", "t", "c", "o", "m", "e", " ", "o", "f", " ", "i", "n", "f", "l", "u", "e", "n", "c", "e">>)
    @@ ("Resource constraints" :> <<"R", "e", "s", "o", "u", "r", "c", "e", " ", "c", "o", "n", "s", "t", "r", "a", "i", "n", "t", "s">>)
    @@ ("Key challenges" :> <<"K", "e", "y", " ", "c", "h", "a", "l", "l", "e", "n", "g", "e", "s">>)
    @@ ("Strategic impact" :> <<"S", "t", "r", "a", "t", "e", "g", "i", "c", " ", "i", "m", "p", "a", "c", "t">>)
    @@ ("Contextual factors" :> <<"C", "o", "n", "t", "e", "x", "t", "u", "a", "l", " ", "f", "a", "c", "t", "o", "r", "s">>)
    @@ ("stress" :> <<"s", "t", "r", "e", "s", "s">>)
    @@ ("support" :> <<"s", "u", "p", "p", "o", "r", "t">>)
    @@ ("time" :> <<"t", "i", "m", "e">>)
    @@ ("managing" :> <<"m", "a", "n", "a", "g", "i", "n", "g">>)
    @@ ("single" :> <<"s", "i", "n", "g", "l", "e">>)
    @@ ("trigger" :> <<"t", "r", "i", "g", "g", "e", "r">>)
    @@ ("cause" :> <<"c", "a", "u", "s", "e">>)
    @@ ("lead to" :> <<"l", "e", "a", "d", " ", "t", "o">>)
    @@ ("result from" :> <<"r", "e", "s", "u", "l", "t", " ", "f", "r", "o", "m">>)
    @@ ("context" :> <<"c", "o", "n", "t", "e", "x", "t">>)
    @@ ("environment" :> <<"e", "n", "v", "i", "r", "o", "n", "m", "e", "n", "t">>)
    @@ ("setting" :> <<"s", "e", "t", "t", "i", "n", "g">>)
    @@ ("background" :> <<"b", "a", "c", "k", "g", "r", "o", "u", "n", "d">>)
    @@ ("strateg" :> <<"s", "t", "r", "a", "t", "e", "g">>)
    @@ ("action" :> <<"a", "c", "t", "i", "o", "n">>)
    @@ ("approach" :> <<"a", "p", "p", "r", "o", "a", "c", "h">>)
    @@ ("coping" :> <<"c", "o", "p", "i", "n", "g">>)
    @@ ("outcome" :> <<"o", "u", "t", "c", "o", "m", "e">>)
    @@ ("result" :> <<"r", "e", "s", "u", "l", "t">>)
    @@ ("consequence" :> <<"c", "o", "n", "s", "e", "q", "u", "e", "n", "c", "e">>)
    @@ ("impact" :> <<"i", "m", "p", "a", "c", "t">>)
    @@ ("effect" :> <<"e", "f", "f", "e", "c", "t">>)
    @@ ("factor" :> <<"f", "a", "c", "t", "o", "r">>)
    @@ ("influence" :> <<"i", "n", "f", "l", "u", "e", "n", "c", "e">>)
    @@ ("constraint" :> <<"c", "o", "n", "s", "t", "r", "a", "i", "n", "t">>)
    @@ ("resource" :> <<"r", "e", "s", "o", "u", "r", "c", "e">>)
    @@ ("challeng" :> <<"c", "h", "a", "l", "l", "e", "n", "g">>)
    @@ ("a fresh view of care" :> <<"a", " ", "f", "r", "e", "s", "h", " ", "v", "i", "e", "w", " ", "o", "f", " ", "c", "a", "r", "e">>)
    @@ ("a fresh view of cares" :> <<"a", " ", "f", "r", "e", "s", "h", " ", "v", "i", "e", "w", " ", "o", "f", " ", "c", "a", "r", "e", "s">>)
    @@ ("Participants cope with uncertainty by seeking support, which in time leads to a sense of control now" :> <<"P", "a", "r", "t", "i", "c", "i", "p", "a", "n", "t", "s", " ", "c", "o", "p", "e", " ", "w", "i", "t", "h", " ", "u", "n", "c", "e", "r", "t", "a", "i", "n", "t", "y", " ", "b", "y", " ", "s", "e", "e", "k", "i", "n", "g", " ", "s", "u", "p", "p", "o", "r", "t", ",", " ", "w", "h", "i", "c", "h", " ", "i", "n", " ", "t", "i", "m", "e", " ", "l", "e", "a", "d", "s", " ", "t", "o", " ", "a", " ", "s", "e", "n", "s", "e", " ", "o", "f", " ", "c", "o", "n", "t", "r", "o", "l", " ", "n", "o", "w">>)
    @@ ("Participants cope with uncertainty by seeking support, which in time leads to a sense of control here" :> <<"P", "a", "r", "t", "i", "c", "i", "p", "a", "n", "t", "s", " ", "c", "o", "p", "e", " ", "w", "i", "t", "h", " ", "u", "n", "c", "e", "r", "t", "a", "i", "n", "t", "y", " ", "b", "y", " ", "s", "e", "e", "k", "i", "n", "g", " ", "s", "u", "p", "p", "o", "r", "t", ",", " ", "w", "h", "i", "c", "h", " ", "i", "n", " ", "t", "i", "m", "e", " ", "l", "e", "a", "d", "s", " ", "t", "o", " ", "a", " ", "s", "e", "n", "s", "e", " ", "o", "f", " ", "c", "o", "n", "t", "r", "o", "l", " ", "h", "e", "r", "e">>)

Chars(s) == StringChars[s]

\* s.length
StrLen(s) == Len(Chars(s))

UpperCaseChars ==
    <<"A", "B", "C", "D", "E", "F", "G", "H", "I", "J", "K", "L", "M",
      "N", "O", "P", "Q", "R", "S", "T", "U", "V", "W", "X", "Y", "Z">>

LowerCaseChars ==
    <<"a", "b", "c", "d", "e", "f", "g", "h", "i", "j", "k", "l", "m",
      "n", "o", "p", "q", "r", "s", "t", "u", "v", "w", "x", "y", "z">>

LowerChar(c) ==
    IF \E i \in 1..Len(UpperCaseChars) : UpperCaseChars[i] = c
    THEN LowerCaseChars[CHOOSE i \in 1..Len(UpperCaseChars) : UpperCaseChars[i] = c]
    ELSE c

\* s.toLowerCase(), on the characters of s
RECURSIVE ToLowerCase(_)
ToLowerCase(cs) ==
    IF cs = <<>> THEN <<>> ELSE <<LowerChar(Head(cs))>> \o ToLowerCase(Tail(cs))

\* s.toLowerCase() for the strings above, worked out once
LowerCasedChars == [s \in DOMAIN StringChars |-> ToLowerCase(StringChars[s])]

LowerChars(s) == LowerCasedChars[s]

----------------------------------------------------------------------------
(* Numbers: a JavaScript number is the fraction num/den in lowest terms;   *)
(* den = 0 stands for the values division by zero yields: 0/0 is NaN, a    *)
(* positive number over 0 is Infinity.                                     *)

RECURSIVE GCD(_, _)
GCD(a, b) == IF b = 0 THEN a ELSE GCD(b, a % b)

Abs(n) == IF n < 0 THEN -n ELSE n

Frac(n, d) == LET g == GCD(Abs(n), d) IN [num |-> n \div g, den |-> d \div g]

Num(n) == [num |-> n, den |-> 1]

NaN == [num |-> 0, den |-> 0]

Infinity == [num |-> 1, den |-> 0]

IsNaN(x) == x.num = 0 /\ x.den = 0

IsFinite(x) == x.den > 0

\* a / b for a >= 0, b >= 0
NumDiv(a, b) ==
    IF IsNaN(a) \/ IsNaN(b) THEN NaN
    ELSE IF ~IsFinite(a) THEN (IF IsFinite(b) THEN Infinity ELSE NaN)
    ELSE IF ~IsFinite(b) THEN Num(0)
    ELSE IF b.num = 0 THEN (IF a.num = 0 THEN NaN ELSE Infinity)
    ELSE Frac(a.num * b.den, a.den * b.num)

\* a + b
NumAdd(a, b) ==
    IF IsNaN(a) \/ IsNaN(b) THEN NaN
    ELSE IF ~IsFinite(a) \/ ~IsFinite(b) THEN Infinity
    ELSE Frac(a.num * b.den + b.num * a.den, a.den * b.den)

\* a - b, b finite
NumSub(a, b) ==
    IF IsNaN(a) \/ IsNaN(b) THEN NaN
    ELSE IF ~IsFinite(a) THEN Infinity
    ELSE Frac(a.num * b.den - b.num * a.den, a.den * b.den)

\* a <= b, false when either is NaN
NumLe(a, b) == ~IsNaN(a) /\ ~IsNaN(b) /\ a.num * b.den <= b.num * a.den

\* a < b, false when either is NaN
NumLt(a, b) == ~IsNaN(a) /\ ~IsNaN(b) /\ a.num * b.den < b.num * a.den

\* Math.min(a, b)
NumMin(a, b) == IF IsNaN(a) \/ IsNaN(b) THEN NaN ELSE IF NumLe(a, b) THEN a ELSE b

\* Math.max(a, b)
NumMax(a, b) == IF IsNaN(a) \/ IsNaN(b) THEN NaN ELSE IF NumLe(a, b) THEN b ELSE a

\* array.reduce((a, b) => a + b, 0) over a sequence of numbers
RECURSIVE SumNums(_)
SumNums(xs) ==
    IF xs = <<>> THEN Num(0) ELSE NumAdd(SumNums(SubSeq(xs, 1, Len(xs) - 1)), xs[Len(xs)])

----------------------------------------------------------------------------
(* A component that is not in use *)

NoAssessment ==
    [overallQuality |-> NaN, criteriaScores |-> <<>>, strengths |-> <<>>,
     weaknesses |-> <<>>, recommendations |-> <<>>,
     passesQualityThreshold |-> FALSE]

NoCodebook == [codes |-> <<>>, qualityMetrics |-> [hierarchyDepth |-> 0]]

DepthIdle ==
    /\ hierarchy = [rootCodes |-> <<>>, relationships |-> <<>>]
    /\ depthPc = "idle"
    /\ callStack = <<>>
    /\ rootIdx = 1
    /\ maxDepth = 0
    /\ depthResult = 0

NoTheory ==
    [paradigmModel |-> [causalConditions |-> <<>>, context |-> <<>>,
                        strategies |-> <<>>, interveningConditions |-> <<>>],
     storyline |-> "",
     theoreticalPropositions |-> <<>>,
     categoryRelationships |-> <<>>,
     theoreticalIntegration |-> [contribution |-> "", novelty |-> "",
                                 practicalImplications |-> <<>>,
                                 futureResearch |-> <<>>],
     saturationEvidence |-> [categoriesSaturated |-> FALSE]]

QualityIdle ==
    /\ validator = "none"
    /\ qualityPc = "idle"
    /\ codebook = NoCodebook
    /\ themes = <<>>
    /\ theory = NoTheory
    /\ totalDataPoints = 0
    /\ qualityAssessment = NoAssessment

\* const model: ParadigmModel = { phenomenon: '', causalConditions: [], ... }
EmptyParadigmModel ==
    [phenomenon |-> "", causalConditions |-> <<>>, context |-> <<>>,
     strategies |-> <<>>, consequences |-> <<>>, interveningConditions |-> <<>>]

\* the placeholder identifyCoreCategory returns for an empty theme list
UnknownProcess ==
    [name |-> "Unknown Process", supportingCodes |-> <<>>, prevalence |-> Num(0)]

TheoryIdle ==
    /\ theoryPc = "idle"
    /\ theoryThemes = <<>>
    /\ coreCategory = UnknownProcess
    /\ paradigmModel = EmptyParadigmModel
    /\ relationships = <<>>
    /\ storyline = ""
    /\ theoreticalPropositions = <<>>
    /\ title = ""

CalleeIdle ==
    /\ callee = "none"
    /\ calleePc = "idle"
    /\ callArgs = <<>>
    /\ callResult = <<>>

NoResponse ==
    [themes |-> <<>>,
     qualityMetrics |-> [coherence |-> Num(0), distinctiveness |-> Num(0),
                         coverage |-> Num(0), saturation |-> FALSE],
     recommendations |-> <<>>, warnings |-> <<>>]

ExtractIdle ==
    /\ extractPc = "idle"
    /\ rawDataLength = 0
    /\ extractRequest = [minPrevalence |-> <<>>]
    /\ extractionResult = [themes |-> <<>>, uncategorizedCodes |-> <<>>]
    /\ extractResponse = NoResponse

\* no reply of the text service yet, and no response object
NoContent == [type |-> "none", text |-> "", document |-> [given |-> {}]]

NoToolResponse == [recommendations |-> <<>>]

ToolIdle ==
    /\ tool = "none"
    /\ toolPc = "idle"
    /\ toolInput = <<>>
    /\ serviceCalls = 0
    /\ content = NoContent
    /\ toolAssessment = NoAssessment
    /\ toolResponse = NoToolResponse
    /\ toolError = ""

\* no call in progress
ParallelIdle ==
    /\ arrays = <<>>
    /\ calls = <<>>

----------------------------------------------------------------------------
(* Hierarchy depth calculator: refineCodebook.ts, calculateHierarchyDepth *)

AllCodeIds == <<"A", "B", "C", "D", "E", "F">>

CodeIds == {AllCodeIds[i] : i \in 1..MaxCodes}

OrderedCodeIds == SubSeq(AllCodeIds, 1, MaxCodes)

\* the i-th parent->child entry over CodeIds, in identifier order
Entry(i) ==
    <<OrderedCodeIds[((i - 1) \div MaxCodes) + 1], OrderedCodeIds[((i - 1) % MaxCodes) + 1]>>

\* sets of at most k parent->child entries out of Entry(lo), Entry(lo + 1), ...
RECURSIVE EdgeSetsFrom(_, _)
EdgeSetsFrom(k, lo) ==
    IF k = 0
    THEN {{}}
    ELSE {{}} \cup UNION {{{Entry(i)} \cup es : es \in EdgeSetsFrom(k - 1, i + 1)} :
                            i \in lo..(MaxCodes * MaxCodes)}

EdgeSets == EdgeSetsFrom(MaxEdges, 1)

\* hierarchy.relationships holding the given entries: every parent lists its
\* children once each, in identifier order
RelationshipsOf(edges) ==
    [p \in {e[1] : e \in edges} |->
        SelectSeq(OrderedCodeIds, LAMBDA c : <<p, c>> \in edges)]

Relationships == {RelationshipsOf(edges) : edges \in EdgeSets}

\* the children of the codes in S, and all codes the walk can come to from S
SuccIn(rel, S) == {c \in CodeIds : \E p \in S \cap DOMAIN rel : c \in Range(rel[p])}

RECURSIVE ReachIn(_, _)
ReachIn(rel, S) ==
    LET T == S \cup SuccIn(rel, S) IN IF T = S THEN S ELSE ReachIn(rel, T)

\* const children = hierarchy.relationships[codeId] || [];
Children(codeId) ==
    IF codeId \in DOMAIN hierarchy.relationships
    THEN hierarchy.relationships[codeId]
    ELSE <<>>

\* Math.max(...childDepths), childDepths non-empty
MathMaxMutant(childDepths) == MinOfSet(Range(childDepths))
MathMax(childDepths) == MaxOfSet(Range(childDepths))

\* getDepth(rootCode, 1): the depth a root starts with
RootDepth == 1

TopFrame == callStack[Len(callStack)]

\* the activation on top still has a child to map over
PendingChild ==
    /\ callStack # <<>>
    /\ Len(TopFrame.childDepths) < Len(Children(TopFrame.codeId))

\* calculateHierarchyDepth is entered: let maxDepth = 0, loop not started
DepthInit ==
    /\ ExtractIdle
    /\ CalleeIdle
    /\ ToolIdle
    /\ ParallelIdle
    /\ \E r \in SeqsUpTo(CodeIds, MaxRoots), rel \in Relationships :
          \* entries that no root leads to are never read by the walk
          /\ r = <<>> \/ DOMAIN rel \subseteq ReachIn(rel, Range(r))
          /\ hierarchy = [rootCodes |-> r, relationships |-> rel]
    /\ depthPc = "running"
    /\ callStack = <<>>
    /\ rootIdx = 1
    /\ maxDepth = 0
    /\ depthResult = 0
    /\ QualityIdle
    /\ TheoryIdle

\* for (const rootCode of hierarchy.rootCodes) { getDepth(rootCode, 1) ...
StartRoot ==
    /\ depthPc = "running"
    /\ callStack = <<>>
    /\ rootIdx <= Len(hierarchy.rootCodes)
    /\ callStack' = <<[codeId |-> hierarchy.rootCodes[rootIdx],
                       currentDepth |-> RootDepth,
                       childDepths |-> <<>>]>>
    /\ UNCHANGED <<hierarchy, depthPc, rootIdx, maxDepth, depthResult, nonDepthVars>>

\* children.map(childId => getDepth(childId, currentDepth + 1)): next child
CallChild ==
    /\ depthPc = "running"
    /\ PendingChild
    /\ Len(callStack) < MaxCallStack
    /\ LET children == Children(TopFrame.codeId)
           childId == children[Len(TopFrame.childDepths) + 1]
       IN  callStack' = Append(callStack,
                               [codeId |-> childId,
                                currentDepth |-> TopFrame.currentDepth + 1,
                                childDepths |-> <<>>])
    /\ UNCHANGED <<hierarchy, depthPc, rootIdx, maxDepth, depthResult, nonDepthVars>>

\* the same call when the runtime has no room for another activation:
\* RangeError (maximum call stack size exceeded), not caught anywhere
StackOverflow ==
    /\ depthPc = "running"
    /\ PendingChild
    /\ Len(callStack) >= MaxCallStack
    /\ depthPc' = "RangeError"
    /\ UNCHANGED <<hierarchy, callStack, rootIdx, maxDepth, depthResult, nonDepthVars>>

\* return currentDepth (no children) or return Math.max(...childDepths)
ReturnDepth ==
    /\ depthPc = "running"
    /\ callStack # <<>>
    /\ ~PendingChild
    /\ LET depth == IF Len(Children(TopFrame.codeId)) = 0
                    THEN TopFrame.currentDepth
                    ELSE MathMax(TopFrame.childDepths)
           rest == SubSeq(callStack, 1, Len(callStack) - 1)
       IN  IF rest = <<>>
           THEN /\ callStack' = <<>>
                /\ maxDepth' = MaxOfSet({maxDepth, depth})
                /\ rootIdx' = rootIdx + 1
           ELSE /\ callStack' =
                     [rest EXCEPT ![Len(rest)].childDepths = Append(@, depth)]
                /\ UNCHANGED <<maxDepth, rootIdx>>
    /\ UNCHANGED <<hierarchy, depthPc, depthResult, nonDepthVars>>

\* return maxDepth
FinishDepth ==
    /\ depthPc = "running"
    /\ callStack = <<>>
    /\ rootIdx > Len(hierarchy.rootCodes)
    /\ depthPc' = "returned"
    /\ depthResult' = maxDepth
    /\ UNCHANGED <<hierarchy, callStack, rootIdx, maxDepth, nonDepthVars>>

DepthNext == StartRoot \/ CallChild \/ StackOverflow \/ ReturnDepth \/ FinishDepth

SpecDepth == DepthInit /\ [][DepthNext]_vars

----------------------------------------------------------------------------
(* Quality validators: utils/qualityValidation, validateCodebook and       *)
(* validateThemes                                                          *)

\* scores.clarity
Clarity(codes) ==
    LET codesWithDefinitions ==
            SelectSeq(codes, LAMBDA c : c.definition # "" /\ StrLen(c.definition) > 10)
    IN  NumDiv(Num(Len(codesWithDefinitions)), Num(Len(codes)))

\* scores.distinctiveness: new Set(labels lower-cased).size / codes.length
UniqueLabelsCaseSensitive(codes) == {Chars(codes[i].label) : i \in 1..Len(codes)}
UniqueLabels(codes) == {LowerChars(codes[i].label) : i \in 1..Len(codes)}

CodeDistinctivenessInverted(codes) ==
    NumDiv(Num(Len(codes)), Num(Cardinality(UniqueLabels(codes))))
CodeDistinctiveness(codes) ==
    NumDiv(Num(Cardinality(UniqueLabels(codes))), Num(Len(codes)))

\* scores.completeness
Completeness(codeCount) ==
    IF codeCount < 5 THEN Frac(3, 10)
    ELSE IF codeCount < 10 THEN Frac(6, 10)
    ELSE IF codeCount <= 50 THEN Num(1)
    ELSE IF codeCount <= 100 THEN Frac(8, 10)
    ELSE Frac(5, 10)

\* scores.hierarchy
HierarchyScore(hierarchyDepth) ==
    IF hierarchyDepth = 0 THEN Frac(5, 10)
    ELSE IF hierarchyDepth <= 3 THEN Num(1)
    ELSE Frac(6, 10)

\* scores.examples
ExamplesScore(codes) ==
    LET codesWithExamples == SelectSeq(codes, LAMBDA c : Len(c.examples) > 0)
    IN  NumDiv(Num(Len(codesWithExamples)), Num(Len(codes)))

\* Object.values(scores).reduce((a, b) => a + b, 0) / Object.keys(scores).length
MeanOf(scoreList) == NumDiv(SumNums(scoreList), Num(Len(scoreList)))

\* x >= t,  x < t  (both false when x is NaN)
NumGe(x, t) == NumLe(t, x)

\* a list grown by conditional pushes: the texts whose condition holds
Pushed(entries) ==
    LET kept == SelectSeq(entries, LAMBDA e : e[1])
    IN  [i \in 1..Len(kept) |-> kept[i][2]]

validateCodebook(cb) ==
    LET codes == cb.codes
        codeCount == Len(codes)
        scores == [clarity |-> Clarity(codes),
                   distinctiveness |-> CodeDistinctiveness(codes),
                   completeness |-> Completeness(codeCount),
                   hierarchy |-> HierarchyScore(cb.qualityMetrics.hierarchyDepth),
                   examples |-> ExamplesScore(codes)]
        overallQuality ==
            MeanOf(<<scores.clarity, scores.distinctiveness, scores.completeness,
                     scores.hierarchy, scores.examples>>)
        clarityLow == ~NumGe(scores.clarity, Frac(9, 10)) /\ NumLt(scores.clarity, Frac(7, 10))
        distinctLow == ~NumGe(scores.distinctiveness, Frac(95, 100))
                       /\ NumLt(scores.distinctiveness, Frac(9, 10))
        completeLow == ~NumGe(scores.completeness, Frac(9, 10))
                       /\ NumLt(scores.completeness, Frac(7, 10))
        examplesHigh == NumGe(scores.examples, Frac(8, 10))
    IN  [overallQuality |-> overallQuality,
         criteriaScores |-> scores,
         strengths |-> Pushed(<<
            <<NumGe(scores.clarity, Frac(9, 10)), "Codes are clearly defined">>,
            <<NumGe(scores.distinctiveness, Frac(95, 100)),
              "Codes are distinctive and non-overlapping">>,
            <<NumGe(scores.completeness, Frac(9, 10)),
              "Appropriate number of codes for analysis">>,
            <<examplesHigh, "Codes well-supported with examples">> >>),
         weaknesses |-> Pushed(<<
            <<clarityLow, "Some codes lack clear definitions">>,
            <<distinctLow, "Some code labels may be duplicates or very similar">>,
            <<~examplesHigh, "Many codes lack supporting examples">> >>),
         recommendations |-> Pushed(<<
            <<clarityLow,
              "Add clear definitions for all codes, including when to use and when not to use">>,
            <<distinctLow, "Review codes for duplicates and merge similar codes">>,
            <<completeLow /\ codeCount < 10,
              "Consider if you need more codes to capture data richness">>,
            <<completeLow /\ ~(codeCount < 10),
              "Consider consolidating codes - codebook may be too large">>,
            <<~examplesHigh,
              "Add data examples for each code to ground them in evidence">> >>),
         passesQualityThreshold |-> NumGe(overallQuality, Frac(7, 10))]

\* calculateThemeOverlap
calculateThemeOverlap(ts) ==
    IF Len(ts) < 2 THEN Num(0)
    ELSE LET pairs == {p \in (1..Len(ts)) \X (1..Len(ts)) : p[1] < p[2]}
             overlap(p) == Cardinality(Range(ts[p[1]].relatedCodes)
                                       \cap Range(ts[p[2]].relatedCodes))
             RECURSIVE Total(_)
             Total(P) == IF P = {} THEN 0
                         ELSE LET p == CHOOSE q \in P : TRUE
                              IN  overlap(p) + Total(P \ {p})
             comparisons == Cardinality(pairs)
         IN  IF comparisons > 0 THEN NumDiv(Num(Total(pairs)), Num(comparisons))
             ELSE Num(0)

\* scores.coherence
Coherence(ts) ==
    LET themesWithConcepts ==
            SelectSeq(ts, LAMBDA t : t.centralConcept # "" /\ StrLen(t.centralConcept) > 10)
    IN  NumDiv(Num(Len(themesWithConcepts)), Num(Len(ts)))

\* scores.distinctiveness
ThemeDistinctivenessUnclamped(ts) ==
    NumSub(Num(1), NumDiv(calculateThemeOverlap(ts), Num(3)))
ThemeDistinctiveness(ts) ==
    NumMax(Num(0), NumSub(Num(1), NumDiv(calculateThemeOverlap(ts), Num(3))))

\* scores.dataSupport
DataSupport(ts) ==
    LET avgQuotesPerTheme ==
            NumDiv(SumNums([i \in 1..Len(ts) |-> Num(Len(ts[i].supportingQuotes))]),
                   Num(Len(ts)))
    IN  NumMin(Num(1), NumDiv(avgQuotesPerTheme, Num(5)))

\* scores.relevance
Relevance(ts) ==
    LET themesWithSignificance ==
            SelectSeq(ts, LAMBDA t : t.significance # "" /\ StrLen(t.significance) > 10)
    IN  NumDiv(Num(Len(themesWithSignificance)), Num(Len(ts)))

\* scores.prevalence
PrevalenceScore(ts) ==
    NumDiv(SumNums([i \in 1..Len(ts) |->
                      IF ts[i].prevalence.totalParticipants > 0
                      THEN NumDiv(Num(ts[i].prevalence.participants),
                                  Num(ts[i].prevalence.totalParticipants))
                      ELSE Num(0)]),
           Num(Len(ts)))

\* scores.coverage
Coverage(ts, total) ==
    LET totalDataPointsCovered ==
            SumNums([i \in 1..Len(ts) |-> Num(ts[i].prevalence.dataPoints)])
    IN  NumMin(Num(1), NumDiv(totalDataPointsCovered, Num(total)))

validateThemes(ts, total) ==
    LET scores == [coherence |-> Coherence(ts),
                   distinctiveness |-> ThemeDistinctiveness(ts),
                   dataSupport |-> DataSupport(ts),
                   relevance |-> Relevance(ts),
                   prevalence |-> PrevalenceScore(ts),
                   coverage |-> Coverage(ts, total)]
        overallQuality ==
            MeanOf(<<scores.coherence, scores.distinctiveness, scores.dataSupport,
                     scores.relevance, scores.prevalence, scores.coverage>>)
        coherent == NumGe(scores.coherence, Frac(9, 10))
        distinct == NumGe(scores.distinctiveness, Frac(8, 10))
        supported == NumGe(scores.dataSupport, Frac(8, 10))
        prevalent == NumGe(scores.prevalence, Frac(5, 10))
        few == Len(ts) < 3
        many == ~few /\ Len(ts) > 8
    IN  [overallQuality |-> overallQuality,
         criteriaScores |-> scores,
         strengths |-> Pushed(<<
            <<coherent, "Themes have clear central organizing concepts">>,
            <<distinct, "Themes are clearly distinct from each other">>,
            <<supported, "Themes well-supported with data extracts">>,
            <<prevalent, "Themes appear across multiple participants">>,
            <<~few /\ ~many, "Appropriate number of themes">> >>),
         weaknesses |-> Pushed(<<
            <<~coherent, "Some themes lack clear central concepts">>,
            <<~distinct, "Themes may have too much overlap">>,
            <<~supported, "Themes need more supporting quotes">>,
            <<~prevalent, "Some themes may be too narrow, appearing in few participants">>,
            <<few, "Very few themes - may be missing patterns">>,
            <<many, "Many themes - may lack coherence">> >>),
         recommendations |-> Pushed(<<
            <<~coherent, "Define the central organizing concept for each theme">>,
            <<~distinct,
              "Review themes for overlap and ensure each captures a distinct pattern">>,
            <<~supported,
              "Add more supporting quotes for each theme (aim for 5+ per theme)">>,
            <<~prevalent,
              "Consider if narrow themes should be combined or presented as subthemes">>,
            <<few, "Consider if data has been analyzed in sufficient depth">>,
            <<many, "Consider grouping themes or creating theme hierarchies">> >>),
         passesQualityThreshold |-> NumGe(overallQuality, Frac(7, 10))]


(* validateGroundedTheory adds decimal fractions and compares the sums     *)
(* with decimal thresholds, so the rounding of floating-point numbers      *)
(* decides its results.  There a number is an IEEE 754 double d >= 0, held  *)
(* exactly as the integer d * 2^57 in three limbs of 20 bits; a double has  *)
(* 53 significant bits, and every result is rounded to the nearest double,  *)
(* ties to the even one.                                                    *)

LimbBase == 2 ^ 20

\* the limbs after the carries have been passed upwards
Carry(hi, mid, lo) ==
    LET m == mid + (lo \div LimbBase)
    IN  [hi |-> hi + (m \div LimbBase), mid |-> m % LimbBase, lo |-> lo % LimbBase]

\* the spacing of doubles, in units of 2^-57, around a value with top limb hi:
\* 1 below 2^53 units, doubling with every further binary digit
RECURSIVE Quantum(_)
Quantum(hi) == IF hi < 2 ^ 13 THEN 1 ELSE 2 * Quantum(hi \div 2)

\* the double nearest to x + remNum/remDen units, 0 <= remNum < remDen
RoundToDouble(x, remNum, remDen) ==
    LET q == Quantum(x.hi)
        r == x.lo % q
        twice == 2 * (r * remDen + remNum)
        up == \/ twice > q * remDen
              \/ twice = q * remDen /\ (x.lo \div q) % 2 = 1
    IN  Carry(x.hi, x.mid, (x.lo - r) + (IF up THEN q ELSE 0))

\* a decimal literal n/d of the source text, 0.65 being Literal(65, 100)
Literal(n, d) ==
    LET top == n * 2 ^ 17
        r1 == top % d
        r2 == (r1 * LimbBase) % d
    IN  RoundToDouble([hi |-> top \div d,
                       mid |-> (r1 * LimbBase) \div d,
                       lo |-> (r2 * LimbBase) \div d],
                      (r2 * LimbBase) % d, d)

\* a + b
DoubleAdd(a, b) == RoundToDouble(Carry(a.hi + b.hi, a.mid + b.mid, a.lo + b.lo), 0, 1)

\* x / 4: a change of exponent, exact
DoubleQuarter(x) ==
    [hi |-> x.hi \div 4,
     mid |-> (x.mid \div 4) + (x.hi % 4) * (LimbBase \div 4),
     lo |-> (x.lo \div 4) + (x.mid % 4) * (LimbBase \div 4)]

\* a >= b
DoubleGe(a, b) ==
    \/ a.hi > b.hi
    \/ a.hi = b.hi /\ a.mid > b.mid
    \/ a.hi = b.hi /\ a.mid = b.mid /\ a.lo >= b.lo

\* score = 0; if (...) score += 0.2; ... : the contributions whose condition
\* holds are added in the order of the statements
RECURSIVE AddContributions(_, _)
AddContributions(score, contributions) ==
    IF contributions = <<>> THEN score
    ELSE LET c == Head(contributions)
         IN  AddContributions(IF c[1] THEN DoubleAdd(score, Literal(c[2], 10)) ELSE score,
                              Tail(contributions))

\* text && text.length > 20
LongText(text) == text # "" /\ StrLen(text) > 20

CredibilityAnyRelationship(t) ==
    AddContributions(Literal(0, 10),
        <<<<Len(t.paradigmModel.causalConditions) > 0, 2>>,
          <<Len(t.paradigmModel.strategies) > 0, 2>>,
          <<Len(t.categoryRelationships) >= 1, 3>>,
          <<t.saturationEvidence.categoriesSaturated, 3>> >>)
Credibility(t) ==
    AddContributions(Literal(0, 10),
        <<<<Len(t.paradigmModel.causalConditions) > 0, 2>>,
          <<Len(t.paradigmModel.strategies) > 0, 2>>,
          <<Len(t.categoryRelationships) >= 3, 3>>,
          <<t.saturationEvidence.categoriesSaturated, 3>> >>)

Originality(t) ==
    AddContributions(Literal(0, 10),
        <<<<LongText(t.theoreticalIntegration.novelty), 5>>,
          <<Len(t.theoreticalPropositions) >= 3, 5>> >>)

Resonance(t) ==
    AddContributions(Literal(0, 10),
        <<<<t.storyline # "" /\ StrLen(t.storyline) > 100, 3>>,
          <<Len(t.paradigmModel.context) > 0, 2>>,
          <<Len(t.paradigmModel.interveningConditions) > 0, 2>>,
          <<\E i \in 1..Len(t.categoryRelationships) :
                t.categoryRelationships[i].strength = "strong", 3>> >>)

Usefulness(t) ==
    AddContributions(Literal(0, 10),
        <<<<LongText(t.theoreticalIntegration.contribution), 4>>,
          <<Len(t.theoreticalIntegration.practicalImplications) > 0, 3>>,
          <<Len(t.theoreticalIntegration.futureResearch) > 0, 3>> >>)

\* Object.values(scores).reduce((a, b) => a + b, 0) / Object.keys(scores).length
\* for the four scores of a theory
MeanOfFour(scoreList) ==
    DoubleQuarter(DoubleAdd(DoubleAdd(DoubleAdd(DoubleAdd(Literal(0, 10), scoreList[1]),
                                                scoreList[2]),
                                      scoreList[3]),
                            scoreList[4]))

validateGroundedTheory(t) ==
    LET scores == [credibility |-> Credibility(t),
                   originality |-> Originality(t),
                   resonance |-> Resonance(t),
                   usefulness |-> Usefulness(t)]
        overallQuality ==
            MeanOfFour(<<scores.credibility, scores.originality,
                         scores.resonance, scores.usefulness>>)
        credible == DoubleGe(scores.credibility, Literal(8, 10))
        original == DoubleGe(scores.originality, Literal(7, 10))
        resonant == DoubleGe(scores.resonance, Literal(7, 10))
        useful == DoubleGe(scores.usefulness, Literal(7, 10))
        unsaturated == ~t.saturationEvidence.categoriesSaturated
    IN  [overallQuality |-> overallQuality,
         criteriaScores |-> scores,
         strengths |-> Pushed(<<
            <<credible, "Strong evidence of systematic analysis">>,
            <<original, "Theory offers fresh insights">>,
            <<resonant, "Theory captures richness of experience">>,
            <<useful, "Theory has clear practical value">> >>),
         weaknesses |-> Pushed(<<
            <<~credible, "Theory needs more systematic development">>,
            <<~original, "Theory may lack originality">>,
            <<~resonant, "Theory may not fully capture participant experiences">>,
            <<~useful, "Practical implications need development">>,
            <<unsaturated, "Theoretical saturation not achieved">> >>),
         recommendations |-> Pushed(<<
            <<~credible,
              "Ensure all paradigm model elements are developed and relationships are specified">>,
            <<~original,
              "Develop more theoretical propositions and clarify what is novel about this theory">>,
            <<~resonant,
              "Develop more contextual and conditional factors; strengthen the storyline">>,
            <<~useful, "Articulate practical implications and future research directions">>,
            <<unsaturated, "Continue analysis or acknowledge saturation limitations">> >>),
         passesQualityThreshold |-> DoubleGe(overallQuality, Literal(65, 100))]


\* inputs of the validators
CodePalette ==
    [label : {"Joy", "joy", "Fear"},
     definition : {"short text", "a long text"},
     examples : {<<>>, <<"excerpt">>}]

HierarchyDepths == {0, 3, 4}

ThemeTexts ==
    {[centralConcept |-> "short idea", significance |-> ""],
     [centralConcept |-> "a long idea", significance |-> ""],
     [centralConcept |-> "a long idea", significance |-> "matters a lot"]}

RelatedCodeLists ==
    {<<>>, <<"c1", "c2", "c3">>, <<"c1", "c2", "c3", "c4">>, <<"c1", "c1", "c9">>}

\* supporting quotes together with the prevalence triple reported for them
ThemeEvidence ==
    {[quotes |-> 0, participants |-> 0, totalParticipants |-> 0, dataPoints |-> 0],
     [quotes |-> 2, participants |-> 2, totalParticipants |-> 10, dataPoints |-> 2],
     [quotes |-> 3, participants |-> 3, totalParticipants |-> 10, dataPoints |-> 5],
     [quotes |-> 6, participants |-> 12, totalParticipants |-> 10, dataPoints |-> 30]}

ThemePalette ==
    {[centralConcept |-> x.centralConcept,
      significance |-> x.significance,
      relatedCodes |-> c,
      supportingQuotes |-> [i \in 1..e.quotes |-> "quote"],
      prevalence |-> [participants |-> e.participants,
                      totalParticipants |-> e.totalParticipants,
                      dataPoints |-> e.dataPoints]] :
        x \in ThemeTexts, c \in RelatedCodeLists, e \in ThemeEvidence}

DataPointTotals == {0, 10}

\* theories handed to validateGroundedTheory: every list empty or not, the
\* texts on either side of the length the validator asks for
CategoryRelationshipLists ==
    {<<>>,
     <<[strength |-> "weak"]>>,
     <<[strength |-> "strong"]>>,
     <<[strength |-> "weak"], [strength |-> "moderate"], [strength |-> "weak"]>>,
     <<[strength |-> "weak"], [strength |-> "strong"], [strength |-> "weak"]>>}

Storylines ==
    {"Participants cope with uncertainty by seeking support, which in time leads to a sense of control now",
     "Participants cope with uncertainty by seeking support, which in time leads to a sense of control here"}

Theories ==
    [paradigmModel : [causalConditions : {<<>>, <<"Key challenges">>},
                      context : {<<>>, <<"Contextual factors">>},
                      strategies : {<<>>, <<"Coping with uncertainty">>},
                      interveningConditions : {<<>>, <<"Resource constraints">>}],
     storyline : Storylines,
     theoreticalPropositions :
        {<<>>, <<"first proposition", "second proposition", "third proposition">>},
     categoryRelationships : CategoryRelationshipLists,
     theoreticalIntegration :
        [contribution : {"a fresh view of care", "a fresh view of cares"},
         novelty : {"", "a fresh view of cares"},
         practicalImplications : {<<>>, <<"train the staff">>},
         futureResearch : {<<>>, <<"follow the cohort">>}],
     saturationEvidence : [categoriesSaturated : BOOLEAN]]


\* a validator has been called with its arguments
QualityInit ==
    /\ DepthIdle
    /\ TheoryIdle
    /\ ExtractIdle
    /\ CalleeIdle
    /\ ToolIdle
    /\ ParallelIdle
    /\ qualityPc = "called"
    /\ qualityAssessment = NoAssessment
    /\ \/ /\ validator = "validateCodebook"
          /\ \E codes \in SeqsUpTo(CodePalette, MaxCodebook), d \in HierarchyDepths :
                codebook = [codes |-> codes, qualityMetrics |-> [hierarchyDepth |-> d]]
          /\ themes = <<>>
          /\ theory = NoTheory
          /\ totalDataPoints = 0
       \/ /\ validator = "validateThemes"
          /\ codebook = NoCodebook
          /\ themes \in SeqsUpTo(ThemePalette, MaxThemes)
          /\ theory = NoTheory
          /\ totalDataPoints \in DataPointTotals
       \/ /\ validator = "validateGroundedTheory"
          /\ codebook = NoCodebook
          /\ themes = <<>>
          /\ theory \in Theories
          /\ totalDataPoints = 0

ValidateCodebook ==
    /\ qualityPc = "called"
    /\ validator = "validateCodebook"
    /\ qualityAssessment' = validateCodebook(codebook)
    /\ qualityPc' = "returned"
    /\ UNCHANGED <<validator, codebook, themes, theory, totalDataPoints, nonQualityVars>>

ValidateThemes ==
    /\ qualityPc = "called"
    /\ validator = "validateThemes"
    /\ qualityAssessment' = validateThemes(themes, totalDataPoints)
    /\ qualityPc' = "returned"
    /\ UNCHANGED <<validator, codebook, themes, theory, totalDataPoints, nonQualityVars>>

ValidateGroundedTheory ==
    /\ qualityPc = "called"
    /\ validator = "validateGroundedTheory"
    /\ qualityAssessment' = validateGroundedTheory(theory)
    /\ qualityPc' = "returned"
    /\ UNCHANGED <<validator, codebook, themes, theory, totalDataPoints, nonQualityVars>>

QualityNext == ValidateCodebook \/ ValidateThemes \/ ValidateGroundedTheory

SpecQuality == QualityInit /\ [][QualityNext]_vars

----------------------------------------------------------------------------
(* TheoryEngine: analysis/theory-engine.ts *)

\* haystack.includes(needle), on characters
Includes(hay, needle) ==
    \E i \in 0..(Len(hay) - Len(needle)) : SubSeq(hay, i + 1, i + Len(needle)) = needle

\* themeName.includes('keyword')
IncludesAny(hay, keywords) == \E k \in keywords : Includes(hay, Chars(k))

\* the class \w of a regular expression
IsWordChar(c) ==
    \/ c \in Range(UpperCaseChars) \cup Range(LowerCaseChars)
    \/ c \in {"0", "1", "2", "3", "4", "5", "6", "7", "8", "9", "_"}

\* /\w+ing/.test(code): "ing" somewhere after at least one word character
MatchesGerund(code) ==
    \E i \in 2..(Len(code) - 2) :
        /\ SubSeq(code, i, i + 2) = <<"i", "n", "g">>
        /\ IsWordChar(code[i - 1])

\* containsGerunds
containsGerunds(codes) == \E i \in 1..Len(codes) : MatchesGerund(Chars(codes[i]))

\* [...themes].sort((a, b) => b.prevalence - a.prevalence): the sort is
\* stable, an element is placed behind those that do not compare after it
RECURSIVE SortByPrevalence(_)
SortByPrevalence(ts) ==
    IF ts = <<>> THEN <<>>
    ELSE LET front == SortByPrevalence(SubSeq(ts, 1, Len(ts) - 1))
             last == ts[Len(ts)]
             ahead == {i \in 1..Len(front) : NumLe(last.prevalence, front[i].prevalence)}
             k == IF ahead = {} THEN 0 ELSE MaxOfSet(ahead)
         IN  SubSeq(front, 1, k) \o <<last>> \o SubSeq(front, k + 1, Len(front))

identifyCoreCategory(ts) ==
    IF Len(ts) = 0 THEN UnknownProcess ELSE SortByPrevalence(ts)[1]

CausalKeywords == {"trigger", "cause", "lead to", "result from"}

ContextKeywords == {"context", "environment", "setting", "background"}

StrategyKeywords == {"strateg", "action", "approach", "managing", "coping"}

ConsequenceKeywords == {"outcome", "result", "consequence", "impact", "effect"}

InterveningKeywords == {"factor", "influence", "constraint", "resource"}

\* const themeName = theme.name.toLowerCase()
ThemeName(theme) == LowerChars(theme.name)

\* the if / else-if chain of buildParadigmModel: the list a theme is pushed to
BucketContextFirst(theme) ==
    LET themeName == ThemeName(theme)
    IN  IF IncludesAny(themeName, ContextKeywords) THEN "context"
        ELSE IF IncludesAny(themeName, CausalKeywords) THEN "causalConditions"
        ELSE IF IncludesAny(themeName, StrategyKeywords)
                \/ containsGerunds(theme.supportingCodes) THEN "strategies"
        ELSE IF IncludesAny(themeName, ConsequenceKeywords) THEN "consequences"
        ELSE IF IncludesAny(themeName, InterveningKeywords) THEN "interveningConditions"
        ELSE IF NumLt(Frac(3, 10), theme.prevalence) THEN "strategies"
        ELSE "context"
Bucket(theme) ==
    LET themeName == ThemeName(theme)
    IN  IF IncludesAny(themeName, CausalKeywords) THEN "causalConditions"
        ELSE IF IncludesAny(themeName, ContextKeywords) THEN "context"
        ELSE IF IncludesAny(themeName, StrategyKeywords)
                \/ containsGerunds(theme.supportingCodes) THEN "strategies"
        ELSE IF IncludesAny(themeName, ConsequenceKeywords) THEN "consequences"
        ELSE IF IncludesAny(themeName, InterveningKeywords) THEN "interveningConditions"
        ELSE IF NumLt(Frac(3, 10), theme.prevalence) THEN "strategies"
        ELSE "context"

\* model.<list>.push(theme.name)
PushThemeEveryMatch(model, theme) ==
    LET themeName == ThemeName(theme)
        pushIf(m, cond, list) == IF cond THEN [m EXCEPT ![list] = Append(@, theme.name)] ELSE m
        m1 == pushIf(model, IncludesAny(themeName, CausalKeywords), "causalConditions")
        m2 == pushIf(m1, IncludesAny(themeName, ContextKeywords), "context")
        m3 == pushIf(m2, IncludesAny(themeName, StrategyKeywords)
                         \/ containsGerunds(theme.supportingCodes), "strategies")
        m4 == pushIf(m3, IncludesAny(themeName, ConsequenceKeywords), "consequences")
        m5 == pushIf(m4, IncludesAny(themeName, InterveningKeywords),
                     "interveningConditions")
    IN  IF m5 = model THEN [model EXCEPT ![Bucket(theme)] = Append(@, theme.name)] ELSE m5
PushTheme(model, theme) == [model EXCEPT ![Bucket(theme)] = Append(@, theme.name)]

\* for (const theme of themes) { ... }
RECURSIVE ClassifyThemes(_, _)
ClassifyThemes(model, ts) ==
    IF ts = <<>> THEN model
    ELSE ClassifyThemes(PushTheme(model, Head(ts)), Tail(ts))

\* if (themes.length > 0) model.phenomenon = themes[0].name
SetPhenomenonMoved(model, ts) ==
    IF Len(ts) > 0
    THEN [l \in DOMAIN model |->
            IF l = "phenomenon" THEN ts[1].name
            ELSE SelectSeq(model[l], LAMBDA n : n # ts[1].name)]
    ELSE model
SetPhenomenon(model, ts) ==
    IF Len(ts) > 0 THEN [model EXCEPT !.phenomenon = ts[1].name] ELSE model

buildParadigmModel(ts) == SetPhenomenon(ClassifyThemes(EmptyParadigmModel, ts), ts)

\* theme1.supportingCodes.filter(c => theme2.supportingCodes.includes(c))
SharedCodes(theme1, theme2) ==
    SelectSeq(theme1.supportingCodes, LAMBDA c : c \in Range(theme2.supportingCodes))

\* sharedCodes.length > 2 ? 'strong' : sharedCodes.length > 1 ? 'moderate' : 'weak'
Strength(sharedCodes) ==
    IF Len(sharedCodes) > 2 THEN "strong"
    ELSE IF Len(sharedCodes) > 1 THEN "moderate"
    ELSE "weak"

\* the type and explanation inferRelationship picks from the two names
TypeOfUndirected(theme1, theme2) ==
    LET name1 == LowerChars(theme1.name)
        name2 == LowerChars(theme2.name)
    IN  IF \/ Includes(name1, Chars("challeng")) /\ Includes(name2, Chars("strateg"))
           \/ Includes(name2, Chars("challeng")) /\ Includes(name1, Chars("strateg"))
        THEN [type |-> "triggers",
              explanation |-> "Challenges trigger the use of strategies"]
        ELSE IF Includes(name1, Chars("strateg")) /\ Includes(name2, Chars("outcome"))
        THEN [type |-> "causes", explanation |-> "Strategies lead to outcomes"]
        ELSE IF Includes(name1, Chars("context")) \/ Includes(name1, Chars("factor"))
        THEN [type |-> "influences",
              explanation |-> "Contextual factors influence other processes"]
        ELSE [type |-> "influences",
              explanation |-> "\"" \o theme1.name \o "\" influences \"" \o theme2.name
                              \o "\" through shared underlying processes"]
TypeOf(theme1, theme2) ==
    LET name1 == LowerChars(theme1.name)
        name2 == LowerChars(theme2.name)
    IN  IF Includes(name1, Chars("challeng")) /\ Includes(name2, Chars("strateg"))
        THEN [type |-> "triggers",
              explanation |-> "Challenges trigger the use of strategies"]
        ELSE IF Includes(name1, Chars("strateg")) /\ Includes(name2, Chars("outcome"))
        THEN [type |-> "causes", explanation |-> "Strategies lead to outcomes"]
        ELSE IF Includes(name1, Chars("context")) \/ Includes(name1, Chars("factor"))
        THEN [type |-> "influences",
              explanation |-> "Contextual factors influence other processes"]
        ELSE [type |-> "influences",
              explanation |-> "\"" \o theme1.name \o "\" influences \"" \o theme2.name
                              \o "\" through shared underlying processes"]

\* inferRelationship: <<>> stands for null, <<r>> for the relationship r
inferRelationshipByName(theme1, theme2) ==
    LET sharedCodes == SharedCodes(theme1, theme2)
        t == TypeOf(theme1, theme2)
    IN  IF Len(sharedCodes) = 0 /\ t.type = "influences" THEN <<>>
        ELSE <<[type |-> t.type, explanation |-> t.explanation,
                strength |-> Strength(sharedCodes)]>>
inferRelationship(theme1, theme2) ==
    LET sharedCodes == SharedCodes(theme1, theme2)
        t == TypeOf(theme1, theme2)
    IN  IF Len(sharedCodes) = 0 THEN <<>>
        ELSE <<[type |-> t.type, explanation |-> t.explanation,
                strength |-> Strength(sharedCodes)]>>

\* the pairs (i, j) the two nested loops visit, in order; i === j is skipped
LoopPairs(n) ==
    SelectSeq([k \in 1..(n * n) |-> <<((k - 1) \div n) + 1, ((k - 1) % n) + 1>>],
              LAMBDA p : p[1] # p[2])

\* relationships.push({ from: theme1.name, to: theme2.name, ...relationship })
RECURSIVE PushRelationships(_, _, _)
PushRelationships(acc, ts, pairs) ==
    IF pairs = <<>> THEN acc
    ELSE LET theme1 == ts[Head(pairs)[1]]
             theme2 == ts[Head(pairs)[2]]
             relationship == inferRelationship(theme1, theme2)
             next == IF relationship = <<>> THEN acc
                     ELSE Append(acc, [from |-> theme1.name,
                                       to |-> theme2.name,
                                       type |-> relationship[1].type,
                                       explanation |-> relationship[1].explanation,
                                       strength |-> relationship[1].strength])
         IN  PushRelationships(next, ts, Tail(pairs))

mapCategoryRelationships(ts) == PushRelationships(<<>>, ts, LoopPairs(Len(ts)))


\* text.toLowerCase() for a text put together at run time
RECURSIVE LowerText(_)
LowerText(text) ==
    IF Len(text) = 0 THEN ""
    ELSE LowerChar(SubSeq(text, 1, 1)) \o LowerText(SubSeq(text, 2, Len(text)))

\* texts.join(separator)
RECURSIVE Join(_, _)
Join(texts, separator) ==
    IF texts = <<>> THEN ""
    ELSE IF Len(texts) = 1 THEN texts[1]
    ELSE texts[1] \o separator \o Join(Tail(texts), separator)

\* text.toLowerCase(); the texts the model names are lower-cased once
LowerCased == [text \in DOMAIN StringChars |-> LowerText(text)]

toLowerCase(text) ==
    IF text \in DOMAIN LowerCased THEN LowerCased[text] ELSE LowerText(text)

formatListNoComma(items) ==
    IF Len(items) = 0 THEN ""
    ELSE IF Len(items) = 1 THEN toLowerCase(items[1])
    ELSE toLowerCase(Join(SubSeq(items, 1, Len(items) - 1), ", ")) \o " and "
         \o toLowerCase(items[Len(items)])
formatList(items) ==
    IF Len(items) = 0 THEN ""
    ELSE IF Len(items) = 1 THEN toLowerCase(items[1])
    ELSE IF Len(items) = 2 THEN toLowerCase(items[1]) \o " and " \o toLowerCase(items[2])
    ELSE LET lastItem == items[Len(items)]
             otherItems == SubSeq(items, 1, Len(items) - 1)
         IN  Join([i \in 1..Len(otherItems) |-> toLowerCase(otherItems[i])], ", ")
             \o ", and " \o toLowerCase(lastItem)

\* the sentences generateStoryline appends one after the other, each with
\* the condition under which it is appended
StorylineSentences(core, model, ts) ==
    <<<<TRUE, "This grounded theory explains the process of "
              \o toLowerCase(core.name) \o ". ">>,
      <<Len(model.causalConditions) > 0,
        "This process is initiated by " \o formatList(model.causalConditions) \o ". ">>,
      <<Len(model.context) > 0,
        "It occurs within the context of " \o formatList(model.context) \o ". ">>,
      <<Len(model.strategies) > 0,
        "Participants engage in " \o formatList(model.strategies)
        \o " as responses to the phenomenon. ">>,
      <<Len(model.interveningConditions) > 0,
        "These responses are shaped by " \o formatList(model.interveningConditions) \o ". ">>,
      <<Len(model.consequences) > 0,
        "This ultimately results in " \o formatList(model.consequences) \o ". ">>,
      <<TRUE, "\n\nThe data reveals " \o ToString(Len(ts))
              \o " interconnected themes that together explain how participants navigate "
              \o toLowerCase(core.name) \o ". ">>,
      <<TRUE, "This theory demonstrates that the process is not linear but involves continuous interaction between individual actions, contextual factors, and evolving outcomes.">> >>

generateStorylineConsequencesEarly(core, model, ts) ==
    LET sentences == StorylineSentences(core, model, ts)
    IN  Join(Pushed(<<sentences[1], sentences[2], sentences[3], sentences[4],
                      sentences[6], sentences[5], sentences[7], sentences[8]>>), "")
generateStorylineNeedsThemes(core, model, ts) ==
    IF Len(ts) = 0 THEN "" ELSE Join(Pushed(StorylineSentences(core, model, ts)), "")
generateStoryline(core, model, ts) ==
    Join(Pushed(StorylineSentences(core, model, ts)), "")

\* the sentence the switch on rel.type builds, '' for a type it does not know
PropositionOf(rel) ==
    CASE rel.type = "causes" -> rel.from \o " directly causes " \o rel.to
      [] rel.type = "triggers" -> rel.from \o " triggers the initiation of " \o rel.to
      [] rel.type = "influences" -> rel.from \o " significantly influences " \o rel.to
      [] rel.type = "enables" -> rel.from \o " enables or facilitates " \o rel.to
      [] rel.type = "constrains" -> rel.from \o " constrains or limits " \o rel.to
      [] rel.type = "precedes" -> rel.from \o " temporally precedes " \o rel.to
      [] OTHER -> ""

\* xs.slice(0, n)
SliceTo(xs, n) == SubSeq(xs, 1, IF Len(xs) < n THEN Len(xs) ELSE n)

GenericPropositions ==
    <<"The identified themes represent interconnected processes in participants' experiences",
      "Context and individual factors mediate how these processes manifest",
      "The overall process is dynamic and evolves over time">>

generatePropositionsUncapped(ts, rels) ==
    LET strongRelationships == SelectSeq(rels, LAMBDA r : r.strength = "strong")
        fromRelationships ==
            SelectSeq([i \in 1..Len(strongRelationships) |->
                            PropositionOf(strongRelationships[i])],
                      LAMBDA proposition : proposition # "")
        prevalentThemes == SelectSeq(ts, LAMBDA t : NumLt(Frac(5, 10), t.prevalence))
        fromThemes ==
            [i \in 1..Len(SliceTo(prevalentThemes, 3)) |->
                prevalentThemes[i].name
                \o " is a central process that appears across most participant experiences"]
        propositions == fromRelationships \o fromThemes
    IN  IF Len(propositions) = 0 THEN GenericPropositions ELSE propositions
generatePropositions(ts, rels) ==
    LET strongRelationships == SelectSeq(rels, LAMBDA r : r.strength = "strong")
        fromRelationships ==
            SelectSeq([i \in 1..Len(SliceTo(strongRelationships, 5)) |->
                            PropositionOf(strongRelationships[i])],
                      LAMBDA proposition : proposition # "")
        prevalentThemes == SelectSeq(ts, LAMBDA t : NumLt(Frac(5, 10), t.prevalence))
        fromThemes ==
            [i \in 1..Len(SliceTo(prevalentThemes, 3)) |->
                prevalentThemes[i].name
                \o " is a central process that appears across most participant experiences"]
        propositions == fromRelationships \o fromThemes
    IN  IF Len(propositions) = 0 THEN GenericPropositions ELSE propositions

\* themes handed to the engine
CategoryNames ==
    {"Coping with uncertainty", "Trigger in context", "Result from action",
     "Outcome of influence", "Resource constraints", "Key challenges",
     "Strategic impact", "Contextual factors"}

\* prevalence together with the supporting codes
CategoryEvidence ==
    {[prevalence |-> Frac(3, 10), supportingCodes |-> <<>>],
     [prevalence |-> Frac(4, 10), supportingCodes |-> <<"stress", "stress", "support">>],
     [prevalence |-> Frac(8, 10), supportingCodes |-> <<"stress", "support", "time">>],
     [prevalence |-> Frac(2, 10), supportingCodes |-> <<"managing", "stress">>],
     [prevalence |-> Frac(2, 10), supportingCodes |-> <<"single">>]}

CategoryPalette ==
    {[name |-> n, supportingCodes |-> e.supportingCodes, prevalence |-> e.prevalence] :
        n \in CategoryNames, e \in CategoryEvidence}

\* buildGroundedTheory has been called with params.themes
TheoryInit ==
    /\ DepthIdle
    /\ QualityIdle
    /\ ExtractIdle
    /\ CalleeIdle
    /\ ToolIdle
    /\ ParallelIdle
    /\ theoryPc = "called"
    /\ theoryThemes \in SeqsUpTo(CategoryPalette, MaxCategories)
    /\ coreCategory = UnknownProcess
    /\ paradigmModel = EmptyParadigmModel
    /\ relationships = <<>>
    /\ storyline = ""
    /\ theoreticalPropositions = <<>>
    /\ title = ""

\* buildGroundedTheory, steps 1 to 5 and the title
BuildGroundedTheory ==
    /\ theoryPc = "called"
    /\ coreCategory' = identifyCoreCategory(theoryThemes)
    /\ paradigmModel' = buildParadigmModel(theoryThemes)
    /\ relationships' = mapCategoryRelationships(theoryThemes)
    /\ storyline' = generateStoryline(coreCategory', paradigmModel', theoryThemes)
    /\ theoreticalPropositions' = generatePropositions(theoryThemes, relationships')
    /\ title' = "Theory of " \o coreCategory'.name
    /\ theoryPc' = "returned"
    /\ UNCHANGED <<theoryThemes, nonTheoryVars>>

TheoryNext == BuildGroundedTheory

SpecTheory == TheoryInit /\ [][TheoryNext]_vars

----------------------------------------------------------------------------
(* extractThemes: tools/extractThemes.ts, from the parsed reply to the      *)
(* response                                                                *)

\* extractionResult.themes.map(...): the Theme built from an entry t of the
\* reply; a count of 0 stands for a count that is missing or 0 (both falsy)
TransformTheme(t, rawLength) ==
    [centralConcept |-> t.centralConcept,
     significance |-> t.significance,
     relatedCodes |-> t.relatedCodes,
     supportingQuotes |-> t.supportingQuotes,
     prevalence |->
        [participants |-> t.prevalence.participantCount,
         totalParticipants |-> rawLength,
         dataPoints |-> IF t.prevalence.dataPointCount # 0
                        THEN t.prevalence.dataPointCount
                        ELSE Len(t.supportingQuotes)]]

\* Math.min(3, Math.floor(rawData.length * 0.3)); the product is below 3 for
\* lengths under 10 and never an integer there, so the floor is that of 3n/10
ParticipantThreshold(rawLength) ==
    LET floor == (3 * rawLength) \div 10 IN IF floor < 3 THEN floor ELSE 3

\* const saturation = themes.length >= 3 && themes.every(...) && themes.every(...)
SaturationTwoThemes(ts, rawLength) ==
    /\ Len(ts) >= 2
    /\ \A i \in 1..Len(ts) : Len(ts[i].supportingQuotes) >= 3
    /\ \A i \in 1..Len(ts) :
          ts[i].prevalence.participants >= ParticipantThreshold(rawLength)
Saturation(ts, rawLength) ==
    /\ Len(ts) >= 3
    /\ \A i \in 1..Len(ts) : Len(ts[i].supportingQuotes) >= 3
    /\ \A i \in 1..Len(ts) :
          ts[i].prevalence.participants >= ParticipantThreshold(rawLength)

\* score || 0
OrZero(score) == IF IsNaN(score) \/ score.num = 0 THEN Num(0) ELSE score

\* themes below request.minPrevalence
LowPrevalenceThemes(ts, minPrevalence) ==
    SelectSeq(ts, LAMBDA t : NumLt(NumDiv(Num(t.prevalence.participants),
                                          Num(t.prevalence.totalParticipants)),
                                   minPrevalence))

\* responseObj.warnings after the four conditional pushes; the texts that
\* interpolate a value carry it beside the text
Warnings(ts, assessment, saturation, result, request) ==
    LET uncategorized == Len(result.uncategorizedCodes)
        low == IF request.minPrevalence = <<>> THEN <<>>
               ELSE LowPrevalenceThemes(ts, request.minPrevalence[1])
    IN  Pushed(<<
            <<~assessment.passesQualityThreshold,
              <<"Theme quality score is below threshold", assessment.overallQuality>> >>,
            <<~saturation,
              <<"Theoretical saturation may not be achieved - consider analyzing more data">> >>,
            <<uncategorized > 0,
              <<"codes not incorporated into themes", uncategorized>> >>,
            <<Len(low) > 0,
              <<"themes below minimum prevalence threshold", Len(low)>> >> >>)

\* the response extractThemes builds from the parsed reply
extractThemes(request, rawLength, result) ==
    LET ts == [i \in 1..Len(result.themes) |-> TransformTheme(result.themes[i], rawLength)]
        assessment == validateThemes(ts, rawLength * 10)
        saturation == Saturation(ts, rawLength)
    IN  [themes |-> ts,
         qualityMetrics |->
            [coherence |-> OrZero(assessment.criteriaScores.coherence),
             distinctiveness |-> OrZero(assessment.criteriaScores.distinctiveness),
             coverage |-> OrZero(assessment.criteriaScores.coverage),
             saturation |-> saturation],
         recommendations |-> assessment.recommendations,
         warnings |-> Warnings(ts, assessment, saturation, result, request)]

\* entries of extractionResult.themes
ReplyThemeEvidence ==
    {[quotes |-> 3, participantCount |-> 3, dataPointCount |-> 0],
     [quotes |-> 3, participantCount |-> 1, dataPointCount |-> 0],
     [quotes |-> 3, participantCount |-> 0, dataPointCount |-> 0],
     [quotes |-> 2, participantCount |-> 3, dataPointCount |-> 0],
     [quotes |-> 4, participantCount |-> 5, dataPointCount |-> 4],
     [quotes |-> 0, participantCount |-> 0, dataPointCount |-> 0]}

ReplyThemes ==
    {[centralConcept |-> "a long idea",
      significance |-> "matters a lot",
      relatedCodes |-> <<"c1", "c2", "c3">>,
      supportingQuotes |-> [i \in 1..e.quotes |-> "quote"],
      prevalence |-> [participantCount |-> e.participantCount,
                      dataPointCount |-> e.dataPointCount]] : e \in ReplyThemeEvidence}

RawDataLengths == {0, 3, 5, 10}

\* extractThemes has parsed the reply of the text service
ExtractInit ==
    /\ DepthIdle
    /\ QualityIdle
    /\ TheoryIdle
    /\ CalleeIdle
    /\ ToolIdle
    /\ ParallelIdle
    /\ extractPc = "parsed"
    /\ rawDataLength \in RawDataLengths
    /\ extractRequest \in [minPrevalence : {<<>>, <<Frac(1, 2)>>}]
    /\ extractionResult \in [themes : SeqsUpTo(ReplyThemes, MaxExtracted),
                             uncategorizedCodes : {<<>>, <<"c8", "c9">>}]
    /\ extractResponse = NoResponse

ExtractThemes ==
    /\ extractPc = "parsed"
    /\ extractResponse' = extractThemes(extractRequest, rawDataLength, extractionResult)
    /\ extractPc' = "returned"
    /\ UNCHANGED <<rawDataLength, extractRequest, extractionResult, nonExtractVars>>

ExtractNext == ExtractThemes

SpecExtract == ExtractInit /\ [][ExtractNext]_vars

----------------------------------------------------------------------------
(* validateMethodologyStructure: utils/methodologyLoader.ts.  A field that  *)
(* is missing or empty is the empty string; the order of a stage is <<n>>   *)
(* for the number n and Undefined when it is missing; stagesGiven tells     *)
(* whether the methodology has a stages field at all.                       *)

Undefined == <<>>

\* numbers.sort((a, b) => a - b) by insertion
RECURSIVE SortAscending(_)
SortAscending(numbers) ==
    IF numbers = <<>> THEN <<>>
    ELSE LET front == SortAscending(SubSeq(numbers, 1, Len(numbers) - 1))
             last == numbers[Len(numbers)]
             ahead == {i \in 1..Len(front) : front[i][1] <= last[1]}
             k == IF ahead = {} THEN 0 ELSE MaxOfSet(ahead)
         IN  SubSeq(front, 1, k) \o <<last>> \o SubSeq(front, k + 1, Len(front))

\* stages.map(s => s.order).sort((a, b) => a - b): sort puts the undefined
\* entries last without asking the comparator
SortedOrders(stages) ==
    LET orders == [i \in 1..Len(stages) |-> stages[i].order]
    IN  SortAscending(SelectSeq(orders, LAMBDA o : o # Undefined))
        \o SelectSeq(orders, LAMBDA o : o = Undefined)

OrderError == "Stage orders should be sequential starting from 1 (or 0 for ongoing stages)"

\* the four tests made on the stage at index (counted from 0)
StageErrors(stage, index) ==
    Pushed(<<<<stage.name = "", "Stage " \o ToString(index) \o ": missing name">>,
             <<stage.description = "",
               "Stage " \o ToString(index) \o ": missing description">>,
             <<stage.order = Undefined, "Stage " \o ToString(index) \o ": missing order">>,
             <<stage.promptTemplate = "",
               "Stage " \o ToString(index) \o ": missing promptTemplate">>>>)

RECURSIVE AllStageErrors(_, _)
AllStageErrors(stages, done) ==
    IF done = Len(stages) THEN <<>>
    ELSE StageErrors(stages[done + 1], done) \o AllStageErrors(stages, done + 1)

\* orders.every((o, i) => o === expectedOrders[i] || o === 0)
OrdersAccepted(orders) ==
    \A i \in 1..Len(orders) : orders[i] = <<i - 1>> \/ orders[i] = <<0>>

validateMethodologyStructure(methodology) ==
    LET required ==
            Pushed(<<<<methodology.id = "", "Missing required field: id">>,
                     <<methodology.name = "", "Missing required field: name">>,
                     <<methodology.version = "", "Missing required field: version">>,
                     <<methodology.category = "", "Missing required field: category">>,
                     <<~methodology.stagesGiven \/ Len(methodology.stages) = 0,
                       "Missing or empty required field: stages">>>>)
        staged ==
            IF methodology.stagesGiven
            THEN AllStageErrors(methodology.stages, 0)
                 \o Pushed(<<<<~OrdersAccepted(SortedOrders(methodology.stages)),
                              OrderError>>>>)
            ELSE <<>>
        errors == required \o staged
    IN  [valid |-> Len(errors) = 0, errors |-> errors]

----------------------------------------------------------------------------
(* checkSaturation: utils/llmPrompts.ts.  The rate is a quotient of small   *)
(* whole numbers, and a quotient that is not 0.1 or 0.2 exactly is further  *)
(* from them than rounding reaches, so the comparisons are made on exact    *)
(* fractions; a negative number has a negative num.                         *)

\* item.code || item.label
CodeOrLabel(item) == IF item.code # "" THEN item.code ELSE item.label

\* new Set(batch.map(...)).size
UniqueCodeCount(batch) == Cardinality({CodeOrLabel(batch[i]) : i \in 1..Len(batch)})

\* xs.slice(-3)
LastThree(xs) == SubSeq(xs, IF Len(xs) > 3 THEN Len(xs) - 2 ELSE 1, Len(xs))

\* 1 - rate
OneMinus(rate) ==
    IF IsNaN(rate) THEN NaN
    ELSE IF ~IsFinite(rate) THEN [num |-> -1, den |-> 0]
    ELSE NumSub(Num(1), rate)

\* the evidence text is left out: it repeats the rate, rounded
checkSaturation(codeCount, recentDataBatches) ==
    IF Len(recentDataBatches) < 3
    THEN [saturated |-> FALSE, confidence |-> Num(0)]
    ELSE LET codesPerBatch == [i \in 1..Len(recentDataBatches) |->
                                    Num(UniqueCodeCount(recentDataBatches[i]))]
             lastThree == LastThree(codesPerBatch)
             avgNewCodes == NumDiv(SumNums(lastThree), Num(3))
             newCodeRate == NumDiv(avgNewCodes, Num(codeCount))
         IN  IF NumLt(newCodeRate, Frac(1, 10))
             THEN [saturated |-> TRUE, confidence |-> Frac(8, 10)]
             ELSE IF NumLt(newCodeRate, Frac(2, 10))
             THEN [saturated |-> TRUE, confidence |-> Frac(6, 10)]
             ELSE [saturated |-> FALSE, confidence |-> OneMinus(newCodeRate)]

----------------------------------------------------------------------------
(* A function called by itself.  TheoryEngine.formatList, generateStoryline *)
(* and generatePropositions: buildGroundedTheory hands them the names of    *)
(* its themes, its paradigm model and the relationships                     *)
(* mapCategoryRelationships found, and lists longer than the few themes     *)
(* above are reached here.  validateMethodologyStructure and                *)
(* checkSaturation are exported and take what their caller gives them.      *)

\* stages with every field, one for each order, and stages that miss a field
StagePalette ==
    {[name |-> "Open coding", description |-> "Label the data", order |-> <<o>>,
      promptTemplate |-> "Code this"] : o \in {0, 1, 2, 3, 4}}
    \cup {[name |-> "", description |-> "Label the data", order |-> <<1>>,
           promptTemplate |-> "Code this"],
          [name |-> "Open coding", description |-> "", order |-> Undefined,
           promptTemplate |-> ""]}

Methodologies ==
    {[id |-> id, name |-> "Grounded theory", version |-> version, category |-> "coding",
      stagesGiven |-> given, stages |-> stages] :
        id \in {"", "gt"}, version \in {"", "1.0"}, given \in BOOLEAN,
        stages \in SeqsUpTo(StagePalette, MaxStages)}

\* items of a data batch: a code, or a label when the code is missing
BatchPalette ==
    {<<>>,
     <<[code |-> "stress", label |-> ""]>>,
     <<[code |-> "stress", label |-> ""], [code |-> "", label |-> "stress"]>>,
     <<[code |-> "stress", label |-> ""], [code |-> "", label |-> "time"],
       [code |-> "support", label |-> "time"]>>}

CodeCounts == {0, 1, 5, 10, 20, 30}


\* names of themes, as they reach formatList through the paradigm lists
ItemNames == {"", "Seeking Help", "Trust", "time"}

\* relationships as mapCategoryRelationships pushes them
RelationshipOf(from, to, type, strength) ==
    [from |-> from, to |-> to, type |-> type, explanation |-> "",
     strength |-> strength]

RelationshipTypes ==
    {"causes", "triggers", "influences", "enables", "constrains", "precedes"}

\* every type with every strength, for the short lists
RelationshipPalette ==
    {RelationshipOf("Seeking Help", "Trust", type, strength) :
        type \in RelationshipTypes, strength \in {"weak", "moderate", "strong"}}

\* two strong relationships that differ and one that is not strong, for the
\* long lists
LongListPalette ==
    {RelationshipOf("Seeking Help", "Trust", "causes", "strong"),
     RelationshipOf("Trust", "time", "precedes", "strong"),
     RelationshipOf("time", "Trust", "influences", "moderate")}

\* themes on both sides of prevalence > 0.5
PrevalentPalette ==
    {[name |-> "Seeking Help", supportingCodes |-> <<>>, prevalence |-> Frac(6, 10)],
     [name |-> "Trust", supportingCodes |-> <<>>, prevalence |-> Frac(8, 10)],
     [name |-> "time", supportingCodes |-> <<>>, prevalence |-> Frac(5, 10)]}

\* one theme on each side of it, for the long lists of relationships
TwoThemePalette == {t \in PrevalentPalette : t.name # "Seeking Help"}

\* what a list of the paradigm model may hold
ListedNames == {<<>>, <<"Trust">>, <<"Seeking Help", "time">>}

ParadigmModels ==
    {[phenomenon |-> "Trust", causalConditions |-> causal, context |-> context,
      strategies |-> strategies, consequences |-> consequences,
      interveningConditions |-> intervening] :
        causal \in ListedNames, context \in ListedNames,
        strategies \in ListedNames, consequences \in ListedNames,
        intervening \in ListedNames}

\* the lists of at most n members of S that generatePropositions is given
PropositionLists(S, n) == SeqsUpTo(S, n)

CalleeInit ==
    /\ DepthIdle
    /\ QualityIdle
    /\ TheoryIdle
    /\ ExtractIdle
    /\ ToolIdle
    /\ ParallelIdle
    /\ calleePc = "called"
    /\ callResult = <<>>
    /\ \/ /\ callee = "formatList"
          /\ callArgs \in {<<items>> : items \in SeqsUpTo(ItemNames, MaxItems)}
       \/ /\ callee = "generateStoryline"
          /\ callArgs \in TwoThemePalette \X ParadigmModels
                          \X PropositionLists({t \in PrevalentPalette : t.name = "Trust"}, 2)
       \/ /\ callee = "validateMethodologyStructure"
          /\ callArgs \in {<<m>> : m \in {x \in Methodologies :
                                             x.stagesGiven \/ x.stages = <<>>}}
       \/ /\ callee = "checkSaturation"
          /\ callArgs \in CodeCounts \X SeqsUpTo(BatchPalette, MaxBatches)
       \/ /\ callee = "generatePropositions"
          /\ \/ callArgs \in PropositionLists(TwoThemePalette, MaxPrevalent)
                             \X PropositionLists(LongListPalette, MaxRelationships)
             \/ callArgs \in PropositionLists(PrevalentPalette, MaxPrevalent)
                             \X PropositionLists(RelationshipPalette, 1)

FormatList ==
    /\ callee = "formatList"
    /\ calleePc = "called"
    /\ callResult' = formatList(callArgs[1])
    /\ calleePc' = "returned"
    /\ UNCHANGED <<callee, callArgs, nonCalleeVars>>

GenerateStoryline ==
    /\ callee = "generateStoryline"
    /\ calleePc = "called"
    /\ callResult' = generateStoryline(callArgs[1], callArgs[2], callArgs[3])
    /\ calleePc' = "returned"
    /\ UNCHANGED <<callee, callArgs, nonCalleeVars>>

GeneratePropositions ==
    /\ callee = "generatePropositions"
    /\ calleePc = "called"
    /\ callResult' = generatePropositions(callArgs[1], callArgs[2])
    /\ calleePc' = "returned"
    /\ UNCHANGED <<callee, callArgs, nonCalleeVars>>

ValidateMethodologyStructure ==
    /\ callee = "validateMethodologyStructure"
    /\ calleePc = "called"
    /\ callResult' = validateMethodologyStructure(callArgs[1])
    /\ calleePc' = "returned"
    /\ UNCHANGED <<callee, callArgs, nonCalleeVars>>

CheckSaturation ==
    /\ callee = "checkSaturation"
    /\ calleePc = "called"
    /\ callResult' = checkSaturation(callArgs[1], callArgs[2])
    /\ calleePc' = "returned"
    /\ UNCHANGED <<callee, callArgs, nonCalleeVars>>

CalleeNext ==
    \/ FormatList
    \/ GenerateStoryline
    \/ GeneratePropositions
    \/ ValidateMethodologyStructure
    \/ CheckSaturation

SpecCallee == CalleeInit /\ [][CalleeNext]_vars

----------------------------------------------------------------------------
(* The three tool operations around the text service: refineCodebook,      *)
(* tools/extractThemes.ts and tools/buildGroundedTheory.ts.  Each builds   *)
(* its prompt, awaits one reply of the service, parses the reply and       *)
(* assembles its response.  The text of a reply is kept as written, with   *)
(* two abbreviations: the JSON document of a reply is written {} and the   *)
(* value that document denotes is kept beside the text, and ' is written   *)
(* for the backquote.                                                      *)

\* the least and the greatest place (from 1) where part is found in text at
\* or after from, 0 when there is none
IndexOf(text, part, from) ==
    LET places == {i \in from..(Len(text) - Len(part) + 1) :
                      SubSeq(text, i, i + Len(part) - 1) = part}
    IN  IF places = {} THEN 0 ELSE MinOfSet(places)

LastIndexOf(text, part) ==
    LET places == {i \in 1..(Len(text) - Len(part) + 1) :
                      SubSeq(text, i, i + Len(part) - 1) = part}
    IN  IF places = {} THEN 0 ELSE MaxOfSet(places)

FenceOpen == "'''json\n"

FenceClose == "\n'''"

\* content.text.match(/```json\n([\s\S]*?)\n```/): <<match[0], match[1]>>,
\* <<>> for null; the group is lazy, so it ends at the first closing fence
MatchFenced(text) ==
    LET open == IndexOf(text, FenceOpen, 1)
        from == open + Len(FenceOpen)
        close == IF open = 0 THEN 0 ELSE IndexOf(text, FenceClose, from)
    IN  IF close = 0 THEN <<>>
        ELSE <<SubSeq(text, open, close + Len(FenceClose) - 1),
               SubSeq(text, from, close - 1)>>

\* content.text.match(/\{[\s\S]*\}/): <<match[0]>>, from the first opening
\* brace to the last closing one
MatchBraced(text) ==
    LET open == IndexOf(text, "{", 1)
        close == LastIndexOf(text, "}")
    IN  IF open = 0 \/ close < open THEN <<>> ELSE <<SubSeq(text, open, close)>>

\* jsonMatch ? (jsonMatch[1] || jsonMatch[0]) : content.text
JsonText(text) ==
    LET fenced == MatchFenced(text)
        jsonMatch == IF fenced # <<>> THEN fenced ELSE MatchBraced(text)
    IN  IF jsonMatch = <<>> THEN text
        ELSE IF Len(jsonMatch) = 2 /\ jsonMatch[2] # "" THEN jsonMatch[2]
        ELSE jsonMatch[1]

\* white space that JSON.parse allows around a value
RECURSIVE TrimStart(_)
TrimStart(text) ==
    IF Len(text) > 0 /\ SubSeq(text, 1, 1) \in {" ", "\n"}
    THEN TrimStart(SubSeq(text, 2, Len(text)))
    ELSE text

RECURSIVE TrimEnd(_)
TrimEnd(text) ==
    IF Len(text) > 0 /\ SubSeq(text, Len(text), Len(text)) \in {" ", "\n"}
    THEN TrimEnd(SubSeq(text, 1, Len(text) - 1))
    ELSE text

\* JSON.parse(jsonText) returns: jsonText is the document of the reply;
\* for any other text of the replies below it throws a SyntaxError
JsonDocument == "{}"

Parses(jsonText) == TrimEnd(TrimStart(jsonText)) = JsonDocument

\* the outcome of an operation: it rejects with an error or resolves with a
\* response, having assessed the quality
Thrown(message) ==
    [error |-> message, response |-> NoToolResponse, assessment |-> NoAssessment]

Resolved(response, assessment) ==
    [error |-> "", response |-> response, assessment |-> assessment]

\* from content to the parsed result: the type test, the match and the
\* try/catch around JSON.parse
ParseReplyLenient(c, what) ==
    IF c.type # "text"
    THEN [error |-> "Unexpected response type from Claude"]
    ELSE [error |-> "", value |-> c.document]
ParseReply(c, what) ==
    IF c.type # "text"
    THEN [error |-> "Unexpected response type from Claude"]
    ELSE IF ~Parses(JsonText(c.text))
    THEN [error |-> "Failed to parse " \o what \o " from Claude response"]
    ELSE [error |-> "", value |-> c.document]

\* calculateHierarchyDepth as a value.  getDepth calls itself once for every
\* child; a call that the runtime has no room for raises a RangeError, which
\* nothing catches
RangeError == -1

RECURSIVE getDepth(_, _, _)
getDepth(rel, codeId, currentDepth) ==
    IF currentDepth > MaxCallStack THEN RangeError
    ELSE LET children == IF codeId \in DOMAIN rel THEN rel[codeId] ELSE <<>>
             childDepths == [i \in 1..Len(children) |->
                                getDepth(rel, children[i], currentDepth + 1)]
         IN  IF Len(children) = 0 THEN currentDepth
             ELSE IF RangeError \in Range(childDepths) THEN RangeError
             ELSE MathMax(childDepths)

RECURSIVE DepthOverRoots(_, _, _)
DepthOverRoots(h, done, soFar) ==
    IF done = Len(h.rootCodes) THEN soFar
    ELSE LET depth == getDepth(h.relationships, h.rootCodes[done + 1], RootDepth)
         IN  IF depth = RangeError THEN RangeError
             ELSE DepthOverRoots(h, done + 1, MaxOfSet({soFar, depth}))

calculateHierarchyDepth(h) == DepthOverRoots(h, 0, 0)

\* the entry of refinedCodes built from an entry rc of the reply
RefinedCode(rc) ==
    [label |-> rc.label,
     definition |-> rc.definition,
     examples |-> rc.examples,
     frequency |-> IF Len(rc.mergedFrom) # 0 THEN Len(rc.mergedFrom) ELSE 1]

\* summary of the CodebookRefinementResponse
SummaryLevelsFromRoots(initialCodes, refinedCodes, codeHierarchy, hierarchyDepth, assessment) ==
    [initialCodeCount |-> initialCodes,
     finalCodeCount |-> Len(refinedCodes),
     hierarchyLevels |-> Len(codeHierarchy.rootCodes),
     qualityScore |-> assessment.overallQuality]
Summary(initialCodes, refinedCodes, codeHierarchy, hierarchyDepth, assessment) ==
    [initialCodeCount |-> initialCodes,
     finalCodeCount |-> Len(refinedCodes),
     hierarchyLevels |-> hierarchyDepth,
     qualityScore |-> assessment.overallQuality]

\* responseObj.recommendations.unshift(`... is below threshold. Please
\* review.`); the percentage written into the text is left out
CodebookBelowThreshold == "Codebook quality score is below threshold. Please review."

\* refineCodebook after the reply has been parsed; initialCodes is the
\* number of initial codes.  averageCodeFrequency, redundancyScore,
\* mergedCodes and the dates are read by nothing that follows and are left
\* out
refineCodebook(initialCodes, refinementResult) ==
    IF "refinedCodes" \notin refinementResult.given
    THEN Thrown("TypeError")
    ELSE
    LET refinedCodes == [i \in 1..Len(refinementResult.refinedCodes) |->
                            RefinedCode(refinementResult.refinedCodes[i])]
        codeHierarchy == refinementResult.hierarchy
        hierarchyDepth == calculateHierarchyDepth(codeHierarchy)
        cb == [codes |-> refinedCodes,
               codeHierarchy |-> codeHierarchy,
               qualityMetrics |-> [totalCodes |-> Len(refinedCodes),
                                   hierarchyDepth |-> hierarchyDepth]]
        assessment == validateCodebook(cb)
    IN  IF hierarchyDepth = RangeError
        THEN Thrown("RangeError")
        ELSE Resolved(
                [codebook |-> cb,
                 summary |-> Summary(initialCodes, refinedCodes, codeHierarchy,
                                     hierarchyDepth, assessment),
                 recommendations |->
                    IF ~assessment.passesQualityThreshold
                    THEN <<CodebookBelowThreshold>> \o assessment.recommendations
                    ELSE assessment.recommendations],
                assessment)

\* extractThemes after the reply has been parsed: extractionResult.themes.map
\* throws when the reply has no themes
extractThemesParsed(request, rawLength, result) ==
    IF "themes" \notin result.given
    THEN Thrown("TypeError")
    ELSE LET response == extractThemes(request, rawLength, result)
         IN  Resolved(response, validateThemes(response.themes, rawLength * 10))

\* saturationEvidence of buildGroundedTheory
SaturationEvidence(ts) ==
    LET unsaturated == SelectSeq(ts, LAMBDA t : Len(t.supportingQuotes) < 5)
    IN  [categoriesSaturated |->
            Len(ts) >= 3 /\ \A i \in 1..Len(ts) : Len(ts[i].supportingQuotes) >= 5,
         unsaturatedCategories |-> [i \in 1..Len(unsaturated) |-> unsaturated[i].name]]

\* responseObj.nextSteps after the conditional and the three closing pushes
NextSteps(saturationEvidence, theoreticalIntegration, categoryRelationships) ==
    Pushed(<<
        <<~saturationEvidence.categoriesSaturated,
          "Continue data collection to achieve theoretical saturation">>,
        <<Len(saturationEvidence.unsaturatedCategories) > 0,
          "Further develop these categories: "
              \o Join(saturationEvidence.unsaturatedCategories, ", ")>>,
        <<Len(theoreticalIntegration.linkedTheories) = 0,
          "Connect theory to existing theoretical literature">>,
        <<Len(categoryRelationships) < 3,
          "Specify more relationships between categories">>,
        <<TRUE, "Validate theory with participants (member checking)">>,
        <<TRUE, "Test theory with new data or different contexts">>,
        <<TRUE, "Write up theory for publication">> >>)

\* buildGroundedTheory of tools/buildGroundedTheory.ts after the reply has
\* been parsed.  A field the reply leaves out reads as "" or as the empty
\* list, which is what its || default gives; the visualizations, the
\* metadata and the console output are left out
buildGroundedTheory(ts, theoryResult) ==
    LET paradigm ==
            [phenomenon |-> IF theoryResult.paradigmModel.phenomenon # ""
                            THEN theoryResult.paradigmModel.phenomenon
                            ELSE theoryResult.phenomenon,
             causalConditions |-> theoryResult.paradigmModel.causalConditions,
             context |-> theoryResult.paradigmModel.context,
             strategies |-> theoryResult.paradigmModel.strategies,
             consequences |-> theoryResult.paradigmModel.consequences,
             interveningConditions |-> theoryResult.paradigmModel.interveningConditions]
        categoryRelationships ==
            [i \in 1..Len(theoryResult.categoryRelationships) |->
                [strength |-> IF theoryResult.categoryRelationships[i].strength # ""
                              THEN theoryResult.categoryRelationships[i].strength
                              ELSE "moderate"]]
        saturationEvidence == SaturationEvidence(ts)
        groundedTheory ==
            [title |-> IF theoryResult.title # "" THEN theoryResult.title
                       ELSE "Theory of " \o
                            (IF "coreCategory" \in theoryResult.given
                             THEN theoryResult.coreCategory ELSE "undefined"),
             coreCategory |-> theoryResult.coreCategory,
             paradigmModel |-> paradigm,
             storyline |-> theoryResult.storyline,
             theoreticalPropositions |-> theoryResult.theoreticalPropositions,
             categoryRelationships |-> categoryRelationships,
             theoreticalIntegration |-> theoryResult.theoreticalIntegration,
             saturationEvidence |-> saturationEvidence]
        assessment == validateGroundedTheory(groundedTheory)
    IN  Resolved(
            [groundedTheory |-> groundedTheory,
             \* score || 0 for the four scores, none of which is NaN
             qualityAssessment |-> assessment.criteriaScores,
             recommendations |-> assessment.recommendations,
             nextSteps |-> NextSteps(saturationEvidence,
                                     theoryResult.theoreticalIntegration,
                                     categoryRelationships)],
            assessment)

\* texts of a reply: without a document, with one that the match finds, and
\* with one that the match loses
ReplyTexts ==
    {"",
     "I cannot analyse these data.",
     "{",
     "'''json\n\n'''",
     "{} and so on }",
     "{}",
     "Here is the analysis: {} I hope it helps.",
     "'''json\n{}\n'''",
     "'''json\n{}\n\n''' as asked"}

\* the document of a reply that holds none
NoDocument == [given |-> {}]

\* refinedCodes of a reply
RefinedCodePalette ==
    {[label |-> "Joy", definition |-> "a long text", examples |-> <<"excerpt">>,
      mergedFrom |-> <<"init-1", "init-2">>],
     [label |-> "Fear", definition |-> "a long text", examples |-> <<"excerpt">>,
      mergedFrom |-> <<>>],
     [label |-> "joy", definition |-> "short text", examples |-> <<>>,
      mergedFrom |-> <<>>]}

\* hierarchies of a reply: no root, a root alone, chains below a root, two
\* branches, and a code that is its own descendant
ReplyHierarchies ==
    {[rootCodes |-> <<>>, relationships |-> <<>>],
     [rootCodes |-> <<"A">>, relationships |-> <<>>],
     [rootCodes |-> <<"A">>, relationships |-> RelationshipsOf({<<"A", "B">>})],
     [rootCodes |-> <<"A">>,
      relationships |-> RelationshipsOf({<<"A", "B">>, <<"B", "C">>})],
     [rootCodes |-> <<"A">>,
      relationships |-> RelationshipsOf({<<"A", "B">>, <<"B", "C">>, <<"C", "D">>})],
     [rootCodes |-> <<"A", "D">>,
      relationships |-> RelationshipsOf({<<"A", "B">>, <<"A", "C">>, <<"C", "D">>})],
     [rootCodes |-> <<"A">>,
      relationships |-> RelationshipsOf({<<"A", "B">>, <<"B", "A">>})]}

RefinementResults ==
    {[given |-> {"refinedCodes"}, refinedCodes |-> codes, hierarchy |-> h] :
        codes \in SeqsUpTo(RefinedCodePalette, MaxRefined), h \in ReplyHierarchies}
    \cup {[given |-> {}, refinedCodes |-> <<>>, hierarchy |-> h] :
            h \in {x \in ReplyHierarchies : x.rootCodes = <<>>}}

ExtractionResults ==
    {[given |-> {"themes"}, themes |-> ts, uncategorizedCodes |-> u] :
        ts \in SeqsUpTo(ReplyThemes, MaxExtracted), u \in {<<>>, <<"c8", "c9">>}}
    \cup {[given |-> {}, themes |-> <<>>, uncategorizedCodes |-> <<>>]}

\* replies to buildGroundedTheory: one that leaves everything out, one that
\* names the core category only, and two developed theories
TheoryResults ==
    {[given |-> {}, title |-> "", coreCategory |-> "", phenomenon |-> "",
      paradigmModel |-> EmptyParadigmModel,
      categoryRelationships |-> <<>>,
      theoreticalIntegration |->
         [linkedTheories |-> <<>>, contribution |-> "", novelty |-> "",
          practicalImplications |-> <<>>, futureResearch |-> <<>>],
      storyline |-> "", theoreticalPropositions |-> <<>>],
     [given |-> {"coreCategory"}, title |-> "", coreCategory |-> "Coping",
      phenomenon |-> "Coping",
      paradigmModel |-> EmptyParadigmModel,
      categoryRelationships |-> <<[strength |-> ""]>>,
      theoreticalIntegration |->
         [linkedTheories |-> <<>>, contribution |-> "", novelty |-> "",
          practicalImplications |-> <<>>, futureResearch |-> <<>>],
      storyline |-> "", theoreticalPropositions |-> <<>>],
     [given |-> {"coreCategory"}, title |-> "Coping with uncertainty",
      coreCategory |-> "Coping", phenomenon |-> "",
      paradigmModel |->
         [phenomenon |-> "Coping", causalConditions |-> <<"Key challenges">>,
          context |-> <<"Contextual factors">>,
          strategies |-> <<"Coping with uncertainty">>,
          consequences |-> <<>>,
          interveningConditions |-> <<>>],
      categoryRelationships |->
         <<[strength |-> "weak"], [strength |-> ""], [strength |-> "weak"]>>,
      theoreticalIntegration |->
         [linkedTheories |-> <<>>, contribution |-> "a fresh view of cares",
          novelty |-> "a fresh view of care",
          practicalImplications |-> <<"train the staff">>, futureResearch |-> <<>>],
      storyline |-> "Participants cope with uncertainty by seeking support, which in time leads to a sense of control now",
      theoreticalPropositions |-> <<"first proposition">>],
     [given |-> {"coreCategory"}, title |-> "Coping with uncertainty",
      coreCategory |-> "Coping", phenomenon |-> "",
      paradigmModel |->
         [phenomenon |-> "Coping", causalConditions |-> <<"Key challenges">>,
          context |-> <<"Contextual factors">>,
          strategies |-> <<"Coping with uncertainty">>,
          consequences |-> <<"Sense of control">>,
          interveningConditions |-> <<"Resource constraints">>],
      categoryRelationships |->
         <<[strength |-> "weak"], [strength |-> "strong"], [strength |-> "weak"]>>,
      theoreticalIntegration |->
         [linkedTheories |-> <<"stress and coping theory">>,
          contribution |-> "a fresh view of cares",
          novelty |-> "a fresh view of cares",
          practicalImplications |-> <<"train the staff">>,
          futureResearch |-> <<"follow the cohort">>],
      storyline |-> "Participants cope with uncertainty by seeking support, which in time leads to a sense of control here",
      theoreticalPropositions |->
         <<"first proposition", "second proposition", "third proposition">>]}

\* themes handed to buildGroundedTheory: what its saturation test reads
SaturationPalette ==
    {[name |-> "Trust", supportingQuotes |-> [i \in 1..5 |-> "quote"]],
     [name |-> "Doubt", supportingQuotes |-> [i \in 1..2 |-> "quote"]]}

\* what the parse is said to have failed on, in the message of each operation
ParsedWhat(operation) ==
    IF operation = "refineCodebook" THEN "codebook refinement"
    ELSE IF operation = "extractThemes" THEN "theme extraction"
    ELSE "grounded theory"

Documents(operation) ==
    IF operation = "refineCodebook" THEN RefinementResults
    ELSE IF operation = "extractThemes" THEN ExtractionResults
    ELSE TheoryResults

\* response.content[0]: a block that is no text, or a text; the text holds
\* a document exactly when {} is written in it
Replies(operation) ==
    {[type |-> "tool_use", text |-> "", document |-> NoDocument]}
    \cup {[type |-> "text", text |-> t, document |-> NoDocument] :
            t \in {x \in ReplyTexts : IndexOf(x, JsonDocument, 1) = 0}}
    \cup {[type |-> "text", text |-> t, document |-> d] :
            t \in {x \in ReplyTexts : IndexOf(x, JsonDocument, 1) # 0},
            d \in Documents(operation)}

\* an operation has been called and has built its prompt
ToolInit ==
    /\ DepthIdle
    /\ QualityIdle
    /\ TheoryIdle
    /\ ExtractIdle
    /\ CalleeIdle
    /\ ParallelIdle
    /\ toolPc = "prompted"
    /\ \/ /\ tool = "refineCodebook"
          /\ toolInput \in [initialCodes : {0, 4}]
       \/ /\ tool = "extractThemes"
          /\ toolInput \in [rawLength : {0, 10}, request : [minPrevalence : {<<>>}]]
       \/ /\ tool = "buildGroundedTheory"
          /\ toolInput \in [themes : SeqsUpTo(SaturationPalette, MaxSaturated)]
    /\ serviceCalls = 0
    /\ content = NoContent
    /\ toolAssessment = NoAssessment
    /\ toolResponse = NoToolResponse
    /\ toolError = ""

\* const response = await anthropicClient.messages.create({...}) resolves
CallService ==
    /\ toolPc = "prompted"
    /\ serviceCalls' = serviceCalls + 1
    /\ content' \in Replies(tool)
    /\ toolPc' = "replied"
    /\ UNCHANGED <<tool, toolInput, toolAssessment, toolResponse, toolError, nonToolVars>>

\* the same call rejects; nothing catches the rejection
ServiceFails ==
    /\ toolPc = "prompted"
    /\ serviceCalls' = serviceCalls + 1
    /\ toolPc' = "failed"
    /\ toolError' = "rejected by the service"
    /\ UNCHANGED <<tool, toolInput, content, toolAssessment, toolResponse, nonToolVars>>

\* the rest of the operation, from the reply to return or throw
Finish(outcome) ==
    /\ toolPc' = IF outcome.error = "" THEN "returned" ELSE "failed"
    /\ toolError' = outcome.error
    /\ toolResponse' = outcome.response
    /\ toolAssessment' = outcome.assessment
    /\ UNCHANGED <<tool, toolInput, serviceCalls, content, nonToolVars>>

RefineCodebook ==
    /\ toolPc = "replied"
    /\ tool = "refineCodebook"
    /\ LET parsed == ParseReply(content, ParsedWhat(tool))
       IN  Finish(IF parsed.error # "" THEN Thrown(parsed.error)
                  ELSE refineCodebook(toolInput.initialCodes, parsed.value))

ExtractThemesFromReply ==
    /\ toolPc = "replied"
    /\ tool = "extractThemes"
    /\ LET parsed == ParseReply(content, ParsedWhat(tool))
       IN  Finish(IF parsed.error # "" THEN Thrown(parsed.error)
                  ELSE extractThemesParsed(toolInput.request, toolInput.rawLength,
                                           parsed.value))

BuildGroundedTheoryFromReply ==
    /\ toolPc = "replied"
    /\ tool = "buildGroundedTheory"
    /\ LET parsed == ParseReply(content, ParsedWhat(tool))
       IN  Finish(IF parsed.error # "" THEN Thrown(parsed.error)
                  ELSE buildGroundedTheory(toolInput.themes, parsed.value))

ToolNext ==
    \/ CallService
    \/ ServiceFails
    \/ RefineCodebook
    \/ ExtractThemesFromReply
    \/ BuildGroundedTheoryFromReply

SpecTool == ToolInit /\ [][ToolNext]_vars

----------------------------------------------------------------------------
(* Two calls in progress at once.  A call is handed an array of themes by  *)
(* reference; the arrays are the only state of the program that outlives a *)
(* step of a call, since neither the TheoryEngine nor the validators keep  *)
(* fields or module variables.  The steps of the two calls are taken in    *)
(* any order, which includes the orders of a runtime that runs each call   *)
(* to completion.                                                          *)

Callers == {1, 2}

CallKinds == {"validateThemes", "buildGroundedTheory"}

\* themes handed to the engine, with the more prevalent one second in some
\* arrays
ParallelCategories ==
    {t \in CategoryPalette :
        \/ t.name = "Coping with uncertainty" /\ t.prevalence = Frac(4, 10)
        \/ t.name = "Key challenges" /\ t.prevalence = Frac(8, 10)}

\* themes handed to validateThemes
ParallelThemes ==
    {t \in ThemePalette :
        /\ t.centralConcept = "a long idea"
        /\ t.significance = "matters a lot"
        /\ t.relatedCodes = <<"c1", "c2", "c3">>
        /\ Len(t.supportingQuotes) \in {2, 6}}

ArraysOf(kind) ==
    IF kind = "validateThemes"
    THEN SeqsUpTo(ParallelThemes, MaxParallel)
    ELSE SeqsUpTo(ParallelCategories, MaxParallel)

NoResult == [title |-> ""]

\* a call that has been entered with the array at reference ref
Entered(kind, ref, list) ==
    [kind |-> kind, themes |-> ref, given |-> list, pc |-> "called",
     coreCategory |-> UnknownProcess, paradigmModel |-> EmptyParadigmModel,
     relationships |-> <<>>, result |-> NoResult]

\* both calls have been entered, with an array each or with the same array
ParallelInit ==
    /\ DepthIdle
    /\ QualityIdle
    /\ TheoryIdle
    /\ ExtractIdle
    /\ CalleeIdle
    /\ ToolIdle
    /\ \E kinds \in [Callers -> CallKinds] :
          \/ /\ arrays \in {a \in [Callers -> ArraysOf(kinds[1]) \cup ArraysOf(kinds[2])] :
                              \A c \in Callers : a[c] \in ArraysOf(kinds[c])}
             /\ calls = [c \in Callers |-> Entered(kinds[c], c, arrays[c])]
          \/ /\ kinds[1] = kinds[2]
             /\ arrays \in [{1} -> ArraysOf(kinds[1])]
             /\ calls = [c \in Callers |-> Entered(kinds[c], 1, arrays[1])]

\* const sorted = [...themes].sort(...): what the array handed over holds
\* afterwards, and the sorted array
SortedInPlace(list) ==
    [array |-> SortByPrevalence(list), sorted |-> SortByPrevalence(list)]
SortedCopy(list) ==
    [array |-> list, sorted |-> SortByPrevalence(list)]

\* 1. const coreCategory = this.identifyCoreCategory(themes)
IdentifyCoreCategory(c) ==
    /\ calls[c].kind = "buildGroundedTheory"
    /\ calls[c].pc = "called"
    /\ LET list == arrays[calls[c].themes]
           after == IF Len(list) = 0
                    THEN [array |-> list, sorted |-> <<UnknownProcess>>]
                    ELSE SortedCopy(list)
       IN  /\ arrays' = [arrays EXCEPT ![calls[c].themes] = after.array]
           /\ calls' = [calls EXCEPT ![c].coreCategory = after.sorted[1],
                                     ![c].pc = "core"]
    /\ UNCHANGED nonParallelVars

\* 2. const paradigmModel = this.buildParadigmModel(themes, codes)
BuildParadigmModel(c) ==
    /\ calls[c].kind = "buildGroundedTheory"
    /\ calls[c].pc = "core"
    /\ calls' = [calls EXCEPT
                    ![c].paradigmModel = buildParadigmModel(arrays[calls[c].themes]),
                    ![c].pc = "model"]
    /\ UNCHANGED <<arrays, nonParallelVars>>

\* 3. const relationships = this.mapCategoryRelationships(themes)
MapCategoryRelationships(c) ==
    /\ calls[c].kind = "buildGroundedTheory"
    /\ calls[c].pc = "model"
    /\ calls' = [calls EXCEPT
                    ![c].relationships = mapCategoryRelationships(arrays[calls[c].themes]),
                    ![c].pc = "relationships"]
    /\ UNCHANGED <<arrays, nonParallelVars>>

\* the GroundedTheory that is returned; paradigm and metadata, which hold
\* the request's own fields and the date, are left out
TheoryOf(core, model, rels, list) ==
    [title |-> "Theory of " \o core.name,
     coreCategory |-> core.name,
     paradigmModel |-> model,
     storyline |-> generateStoryline(core, model, list),
     theoreticalPropositions |-> generatePropositions(list, rels),
     categoryRelationships |-> rels]

\* 4., 5. and the return
ReturnTheory(c) ==
    /\ calls[c].kind = "buildGroundedTheory"
    /\ calls[c].pc = "relationships"
    /\ calls' = [calls EXCEPT
                    ![c].result = TheoryOf(calls[c].coreCategory, calls[c].paradigmModel,
                                           calls[c].relationships,
                                           arrays[calls[c].themes]),
                    ![c].pc = "returned"]
    /\ UNCHANGED <<arrays, nonParallelVars>>

\* validateThemes(themes, totalDataPoints), which only reads its arguments
ValidateThemesCall(c) ==
    /\ calls[c].kind = "validateThemes"
    /\ calls[c].pc = "called"
    /\ calls' = [calls EXCEPT
                    ![c].result = validateThemes(arrays[calls[c].themes],
                                                 MaxOfSet(DataPointTotals)),
                    ![c].pc = "returned"]
    /\ UNCHANGED <<arrays, nonParallelVars>>

ParallelNext ==
    \E c \in Callers :
        \/ IdentifyCoreCategory(c)
        \/ BuildParadigmModel(c)
        \/ MapCategoryRelationships(c)
        \/ ReturnTheory(c)
        \/ ValidateThemesCall(c)

SpecParallel == ParallelInit /\ [][ParallelNext]_vars

----------------------------------------------------------------------------
(* Properties of the hierarchy depth calculator *)

EdgeSet ==
    {pc \in CodeIds \X CodeIds :
        /\ pc[1] \in DOMAIN hierarchy.relationships
        /\ pc[2] \in Range(hierarchy.relationships[pc[1]])}

Succ(S) == SuccIn(hierarchy.relationships, S)

ReachFrom(S) == ReachIn(hierarchy.relationships, S)

Descendants(n) == ReachFrom(Succ({n}))

Acyclic == \A n \in CodeIds : n \notin Descendants(n)

CycleReachable ==
    \E n \in ReachFrom(Range(hierarchy.rootCodes)) : n \in Descendants(n)

\* the paths P extended by one more parent->child entry
Extend(P) == UNION {{Append(p, c) : c \in Succ({p[Len(p)]})} : p \in P}

\* P and all its extensions up to k more entries
RECURSIVE Extensions(_, _)
Extensions(P, k) ==
    IF k = 0 \/ P = {} THEN P ELSE P \cup Extensions(Extend(P), k - 1)

\* root-to-childless-node paths of the parent->children map
RootPaths ==
    {p \in Extensions({<<r>> : r \in Range(hierarchy.rootCodes)}, Cardinality(CodeIds)) :
        Succ({p[Len(p)]}) = {}}

LongestRootPath ==
    IF RootPaths = {} THEN 0 ELSE MaxOfSet({Len(p) : p \in RootPaths})

\* C1: calculateHierarchyDepth terminates on every CodeHierarchy, cyclic
\* ones included: the recursion of getDepth comes to an end by itself and is
\* never cut off by the runtime running out of call stack.
C1_Terminates == depthPc # "RangeError"

\* C2: on a hierarchy with a cycle reachable from a root the calculator ends
\* with the explicit MalformedHierarchy error, and no code identifier is ever
\* twice on the path being walked (visited-set guard).
C2_MalformedHierarchy ==
    /\ (depthPc # "running" /\ CycleReachable) => depthPc = "MalformedHierarchy"
    /\ \A i, j \in 1..Len(callStack) :
          callStack[i].codeId = callStack[j].codeId => i = j

OverflowOnlyOnCycle == depthPc = "RangeError" => CycleReachable

----------------------------------------------------------------------------
(* Properties of the quality validators *)

\* a score that is a number between 0 and 1
InUnit(x) == IsFinite(x) /\ 0 <= x.num /\ x.num <= x.den

ScoresOf(a) == {a.criteriaScores[k] : k \in DOMAIN a.criteriaScores}

EmptyInput ==
    \/ validator = "validateCodebook" /\ Len(codebook.codes) = 0
    \/ validator = "validateThemes" /\ Len(themes) = 0

\* C4: validateCodebook with zero codes and validateThemes with zero themes
\* fail explicitly, and every assessment that is returned has well-formed
\* numeric scores (no NaN).
C4_EmptyInputFails ==
    /\ (EmptyInput /\ qualityPc # "called") => qualityPc = "threw"
    /\ qualityPc = "returned" =>
          /\ IsFinite(qualityAssessment.overallQuality)
          /\ \A x \in ScoresOf(qualityAssessment) : IsFinite(x)

\* C5: for a codebook with at least one code, overallQuality and each of the
\* five criterion scores of validateCodebook lie in [0,1].
C5_CodebookScoresInUnit ==
    (qualityPc = "returned" /\ validator = "validateCodebook"
        /\ Len(codebook.codes) >= 1) =>
        /\ DOMAIN qualityAssessment.criteriaScores =
              {"clarity", "distinctiveness", "completeness", "hierarchy", "examples"}
        /\ \A x \in ScoresOf(qualityAssessment) : InUnit(x)
        /\ InUnit(qualityAssessment.overallQuality)

\* a codebook with two codes sharing a label up to case has been scored
C5_Witness ==
    /\ qualityPc = "returned"
    /\ validator = "validateCodebook"
    /\ Len(codebook.codes) = 2
    /\ qualityAssessment.criteriaScores.distinctiveness = Frac(1, 2)
    /\ qualityAssessment.criteriaScores.clarity = Num(1)
    /\ NumLt(Num(0), qualityAssessment.overallQuality)

\* C6: for a theme list with at least one theme, each of the six criterion
\* scores of validateThemes and overallQuality lie in [0,1], whatever
\* totalDataPoints is and also when participants exceeds totalParticipants.
C6_ThemeScoresInUnit ==
    (qualityPc = "returned" /\ validator = "validateThemes" /\ Len(themes) >= 1) =>
        /\ \A x \in ScoresOf(qualityAssessment) : InUnit(x)
        /\ InUnit(qualityAssessment.overallQuality)

----------------------------------------------------------------------------
(* Properties of the TheoryEngine *)

ParadigmLists ==
    {"causalConditions", "context", "strategies", "consequences", "interveningConditions"}

\* the first theme, in input order, among those of highest prevalence
MostPrevalent(ts) ==
    ts[CHOOSE i \in 1..Len(ts) :
          /\ \A j \in 1..Len(ts) : NumLe(ts[j].prevalence, ts[i].prevalence)
          /\ \A j \in 1..(i - 1) : NumLt(ts[j].prevalence, ts[i].prevalence)]

\* C7: phenomenon is the name of the theme of highest prevalence, the first
\* in input order among equals, and so equals the core category chosen by
\* identifyCoreCategory for the same theme list.
C7_PhenomenonMostPrevalent ==
    (theoryPc = "returned" /\ Len(theoryThemes) > 0) =>
        /\ paradigmModel.phenomenon = MostPrevalent(theoryThemes).name
        /\ paradigmModel.phenomenon = coreCategory.name

\* model sanity: identifyCoreCategory does return that theme
CoreCategoryMostPrevalent ==
    (theoryPc = "returned" /\ Len(theoryThemes) > 0) =>
        coreCategory = MostPrevalent(theoryThemes)

\* the ordered rules of the classifier: keywords and list, first match wins
ClassifierRules ==
    <<[keywords |-> {"trigger", "cause", "lead to", "result from"},
       gerund |-> FALSE, list |-> "causalConditions"],
      [keywords |-> {"context", "environment", "setting", "background"},
       gerund |-> FALSE, list |-> "context"],
      [keywords |-> {"strateg", "action", "approach", "managing", "coping"},
       gerund |-> TRUE, list |-> "strategies"],
      [keywords |-> {"outcome", "result", "consequence", "impact", "effect"},
       gerund |-> FALSE, list |-> "consequences"],
      [keywords |-> {"factor", "influence", "constraint", "resource"},
       gerund |-> FALSE, list |-> "interveningConditions"]>>

RuleMatches(r, theme) ==
    LET lowerName == LowerChars(theme.name)
    IN  \/ \E k \in ClassifierRules[r].keywords : Includes(lowerName, Chars(k))
        \/ ClassifierRules[r].gerund /\ containsGerunds(theme.supportingCodes)

\* the list of the first rule from r on that matches, else the fallback
RECURSIVE FirstMatch(_, _)
FirstMatch(r, theme) ==
    IF r > Len(ClassifierRules)
    THEN IF theme.prevalence.num * 10 > 3 * theme.prevalence.den
         THEN "strategies" ELSE "context"
    ELSE IF RuleMatches(r, theme) THEN ClassifierRules[r].list
    ELSE FirstMatch(r + 1, theme)

ExpectedList(theme) == FirstMatch(1, theme)

\* the five lists when every theme goes to its expected list, in input order
RECURSIVE ExpectedModel(_, _)
ExpectedModel(model, ts) ==
    IF ts = <<>> THEN model
    ELSE ExpectedModel([model EXCEPT ![ExpectedList(Head(ts))] = Append(@, Head(ts).name)],
                       Tail(ts))

NamesOf(ts) == [i \in 1..Len(ts) |-> ts[i].name]

\* C8: each theme goes to the list of the first rule its lower-cased name
\* matches, in the order causalConditions > context > strategies >
\* consequences > interveningConditions > fallback (prevalence > 0.3 to
\* strategies, otherwise to context), and to that list only; "Coping with
\* uncertainty" goes to strategies.
C8_FirstMatchingRule ==
    theoryPc = "returned" =>
        /\ \E expected \in {ExpectedModel(EmptyParadigmModel, theoryThemes)} :
              \A l \in ParadigmLists : paradigmModel[l] = expected[l]
        /\ \A i \in 1..Len(theoryThemes) :
              theoryThemes[i].name = "Coping with uncertainty" =>
                  /\ "Coping with uncertainty" \in Range(paradigmModel.strategies)
                  /\ \A l \in ParadigmLists \ {"strategies"} :
                        "Coping with uncertainty" \notin Range(paradigmModel[l])

\* a name matching the causal and the context keywords, and the coping theme
C8_Witness ==
    /\ theoryPc = "returned"
    /\ NamesOf(theoryThemes) = <<"Trigger in context", "Coping with uncertainty">>
    /\ paradigmModel.causalConditions = <<"Trigger in context">>
    /\ paradigmModel.context = <<>>
    /\ paradigmModel.strategies = <<"Coping with uncertainty">>

\* how often x occurs in the sequence xs
Occurrences(xs, x) == Cardinality({i \in 1..Len(xs) : xs[i] = x})

ListEntries(model) ==
    model.causalConditions \o model.context \o model.strategies
        \o model.consequences \o model.interveningConditions

SlotEntries(model) ==
    (IF model.phenomenon = "" THEN <<>> ELSE <<model.phenomenon>>) \o ListEntries(model)

RelatedPairs(ts) ==
    {p \in (1..Len(ts)) \X (1..Len(ts)) :
        /\ p[1] # p[2]
        /\ Range(ts[p[1]].supportingCodes) \cap Range(ts[p[2]].supportingCodes) # {}}

\* C10: exactly one relationship is emitted for every ordered pair of
\* distinct positions sharing a supporting code, none for any other pair
\* whatever the names are; so (A,B) is emitted iff (B,A) is, and at most
\* n*(n-1) relationships are emitted.
C10_OnePerRelatedPair ==
    theoryPc = "returned" =>
        LET ts == theoryThemes
            names == Range(NamesOf(ts))
            emitted(a, b) ==
                Cardinality({k \in 1..Len(relationships) :
                                relationships[k].from = a /\ relationships[k].to = b})
            related(a, b) ==
                Cardinality({p \in RelatedPairs(ts) :
                                ts[p[1]].name = a /\ ts[p[2]].name = b})
        IN  /\ \A k \in 1..Len(relationships) :
                  relationships[k].from \in names /\ relationships[k].to \in names
            /\ \A a, b \in names : emitted(a, b) = related(a, b)
            /\ \A a, b \in names : emitted(a, b) = emitted(b, a)
            /\ Len(relationships) = Cardinality(RelatedPairs(ts))
            /\ Len(relationships) <= Len(ts) * (Len(ts) - 1)

\* two themes sharing a code: one relationship in each direction
C10_Witness ==
    /\ theoryPc = "returned"
    /\ NamesOf(theoryThemes) = <<"Key challenges", "Strategic impact">>
    /\ Len(relationships) = 2
    /\ relationships[1].from = "Key challenges"
    /\ relationships[2].from = "Strategic impact"


\* the related pairs in the order the two loops come to them: the k-th
\* emitted relationship belongs to the k-th of them
EmittedPairs(ts) == SelectSeq(LoopPairs(Len(ts)), LAMBDA p : p \in RelatedPairs(ts))

DistinctShared(theme1, theme2) ==
    Cardinality(Range(theme1.supportingCodes) \cap Range(theme2.supportingCodes))

\* C11: the strength of every emitted relationship (A,B) follows from the
\* number of distinct code identifiers present in both A and B: strong for
\* more than 2, moderate for 2, weak for 1; so (A,B) and (B,A) carry the same
\* strength, also when a theme lists an identifier more than once.
C11_StrengthByDistinctShared ==
    theoryPc = "returned" =>
        LET ts == theoryThemes
            pairs == EmittedPairs(ts)
            shared(k) == DistinctShared(ts[pairs[k][1]], ts[pairs[k][2]])
        IN  /\ Len(relationships) = Len(pairs)
            /\ \A k \in 1..Len(relationships) :
                  relationships[k].strength =
                      IF shared(k) > 2 THEN "strong"
                      ELSE IF shared(k) = 2 THEN "moderate"
                      ELSE "weak"
            /\ \A k, l \in 1..Len(relationships) :
                  (pairs[k][1] = pairs[l][2] /\ pairs[k][2] = pairs[l][1]) =>
                      relationships[k].strength = relationships[l].strength

\* the first matching rule on the lower-cased names of the pair
ExpectedType(theme1, theme2) ==
    LET a == LowerChars(theme1.name)
        b == LowerChars(theme2.name)
        has(name, word) == Includes(name, Chars(word))
    IN  CASE has(a, "challeng") /\ has(b, "strateg") -> "triggers"
          [] ~(has(a, "challeng") /\ has(b, "strateg"))
             /\ has(a, "strateg") /\ has(b, "outcome") -> "causes"
          [] OTHER -> "influences"

\* C12: the type of every emitted relationship (A,B) is the one of the first
\* matching rule on the lower-cased names, taken in the direction A to B:
\* triggers, else causes, else influences.
C12_TypeByFirstRule ==
    theoryPc = "returned" =>
        LET ts == theoryThemes
            pairs == EmittedPairs(ts)
        IN  /\ Len(relationships) = Len(pairs)
            /\ \A k \in 1..Len(relationships) :
                  /\ relationships[k].from = ts[pairs[k][1]].name
                  /\ relationships[k].to = ts[pairs[k][2]].name
                  /\ relationships[k].type = ExpectedType(ts[pairs[k][1]], ts[pairs[k][2]])

\* challenges trigger strategies, while the opposite direction only influences
C12_Witness ==
    /\ theoryPc = "returned"
    /\ NamesOf(theoryThemes) = <<"Strategic impact", "Key challenges">>
    /\ Len(relationships) = 2
    /\ relationships[1].type = "influences"
    /\ relationships[2].type = "triggers"
    /\ relationships[2].from = "Key challenges"


\* C13: the saturation flag of extractThemes is true exactly when the reply
\* holds at least 3 themes, every theme has at least 3 supporting quotes and
\* every theme's participants reach min(3, floor(totalParticipants * 0.3));
\* for 2 themes or fewer it is false whatever the counts are.
C13_SaturationFlag ==
    extractPc = "returned" =>
        LET reply == extractionResult.themes
            needed == MinOfSet({3, (rawDataLength * 3) \div 10})
            flag == extractResponse.qualityMetrics.saturation
        IN  /\ flag <=> /\ Len(reply) >= 3
                        /\ \A i \in 1..Len(reply) :
                              /\ Len(reply[i].supportingQuotes) >= 3
                              /\ reply[i].prevalence.participantCount >= needed
            /\ Len(reply) <= 2 => ~flag

\* three well-supported themes of a ten-participant study are saturated
C13_Witness ==
    /\ extractPc = "returned"
    /\ rawDataLength = 10
    /\ Len(extractionResult.themes) = 3
    /\ extractResponse.qualityMetrics.saturation


\* the identifiers two themes of the validated list both name, pair by pair
SharedByPair ==
    {x \in ((1..Len(themes)) \X (1..Len(themes))) \X {"c1", "c2", "c3", "c4", "c9"} :
        /\ x[1][1] < x[1][2]
        /\ x[2] \in Range(themes[x[1][1]].relatedCodes)
        /\ x[2] \in Range(themes[x[1][2]].relatedCodes)}

SameLabel(i, j) ==
    ToLowerCase(Chars(codebook.codes[i].label)) = ToLowerCase(Chars(codebook.codes[j].label))

\* the codes that are the first to carry their label
FirstOfLabel ==
    {i \in 1..Len(codebook.codes) : \A j \in 1..(i - 1) : ~SameLabel(i, j)}

\* C15: for a codebook with at least one code, validateCodebook scores
\* distinctiveness 1 exactly when no two codes have labels that are equal
\* case-insensitively; otherwise the score is the number of distinct
\* lower-cased labels over the number of codes, strictly below 1.
C15_DistinctivenessIffDistinct ==
    (qualityPc = "returned" /\ validator = "validateCodebook" /\ Len(codebook.codes) >= 1) =>
        LET n == Len(codebook.codes)
            d == qualityAssessment.criteriaScores.distinctiveness
            distinct == \A i, j \in 1..n : SameLabel(i, j) => i = j
        IN  /\ d = Num(1) <=> distinct
            /\ d = Frac(Cardinality(FirstOfLabel), n)
            /\ ~distinct => NumLt(d, Num(1))

\* "Joy" and "joy" count as one label: one distinct label over two codes
C15_Witness ==
    /\ qualityPc = "returned"
    /\ validator = "validateCodebook"
    /\ Len(codebook.codes) = 2
    /\ codebook.codes[1].label = "Joy"
    /\ codebook.codes[2].label = "joy"
    /\ qualityAssessment.criteriaScores.distinctiveness = Frac(1, 2)


\* the number of tenths a score of a theory stands for
TenthsOf(score) == CHOOSE k \in 0..10 : Literal(k, 10) = score

\* x is the mean tenths/40 of four scores, to within a thousandth
IsMeanOfTenths(x, tenths) ==
    /\ tenths = 0 => x = Literal(0, 10)
    /\ tenths > 0 => /\ DoubleGe(x, Literal(25 * tenths - 1, 1000))
                     /\ DoubleGe(Literal(25 * tenths + 1, 1000), x)

\* C16: overallQuality is the arithmetic mean of the criterion scores, and
\* passesQualityThreshold holds exactly when that mean is at least 0.7
\* (validateCodebook, validateThemes) or at least 0.65
\* (validateGroundedTheory); a mean equal to the threshold passes.
C16_MeanAndThreshold ==
    qualityPc = "returned" =>
        LET a == qualityAssessment
            s == a.criteriaScores
        IN  CASE validator = "validateCodebook" ->
                    LET mean == NumDiv(SumNums(<<s.clarity, s.distinctiveness, s.completeness,
                                                 s.hierarchy, s.examples>>), Num(5))
                    IN  /\ a.overallQuality = mean
                        /\ a.passesQualityThreshold <=> NumLe(Frac(7, 10), mean)
              [] validator = "validateThemes" ->
                    LET mean == NumDiv(SumNums(<<s.coherence, s.distinctiveness, s.dataSupport,
                                                 s.relevance, s.prevalence, s.coverage>>), Num(6))
                    IN  /\ a.overallQuality = mean
                        /\ a.passesQualityThreshold <=> NumLe(Frac(7, 10), mean)
              [] validator = "validateGroundedTheory" ->
                    LET tenths == TenthsOf(s.credibility) + TenthsOf(s.originality)
                                  + TenthsOf(s.resonance) + TenthsOf(s.usefulness)
                    IN  /\ IsMeanOfTenths(a.overallQuality, tenths)
                        /\ a.passesQualityThreshold <=> 100 * tenths >= 65 * 40

\* what the indicators of a theory add up to, in tenths
CredibilityTenths ==
    (IF theory.paradigmModel.causalConditions # <<>> THEN 2 ELSE 0)
    + (IF theory.paradigmModel.strategies # <<>> THEN 2 ELSE 0)
    + (IF Len(theory.categoryRelationships) >= 3 THEN 3 ELSE 0)
    + (IF theory.saturationEvidence.categoriesSaturated THEN 3 ELSE 0)

OriginalityTenths ==
    (IF StrLen(theory.theoreticalIntegration.novelty) > 20 THEN 5 ELSE 0)
    + (IF Len(theory.theoreticalPropositions) >= 3 THEN 5 ELSE 0)

ResonanceTenths ==
    (IF StrLen(theory.storyline) > 100 THEN 3 ELSE 0)
    + (IF theory.paradigmModel.context # <<>> THEN 2 ELSE 0)
    + (IF theory.paradigmModel.interveningConditions # <<>> THEN 2 ELSE 0)
    + (IF "strong" \in {r.strength : r \in Range(theory.categoryRelationships)} THEN 3 ELSE 0)

UsefulnessTenths ==
    (IF StrLen(theory.theoreticalIntegration.contribution) > 20 THEN 4 ELSE 0)
    + (IF theory.theoreticalIntegration.practicalImplications # <<>> THEN 3 ELSE 0)
    + (IF theory.theoreticalIntegration.futureResearch # <<>> THEN 3 ELSE 0)

\* C17: each of the four scores of validateGroundedTheory is the sum of the
\* contributions of its indicators that hold, so it lies in [0,1] and is 1.0
\* only when all its indicators hold; without causal conditions, strategies
\* and saturation and with a single relationship, credibility is 0.
C17_IndicatorSums ==
    (qualityPc = "returned" /\ validator = "validateGroundedTheory") =>
        LET s == qualityAssessment.criteriaScores
            expected == [credibility |-> CredibilityTenths,
                         originality |-> OriginalityTenths,
                         resonance |-> ResonanceTenths,
                         usefulness |-> UsefulnessTenths]
        IN  /\ DOMAIN s = DOMAIN expected
            /\ \A k \in DOMAIN s :
                  /\ s[k] = Literal(expected[k], 10)
                  /\ DoubleGe(s[k], Literal(0, 10)) /\ DoubleGe(Literal(1, 1), s[k])
                  /\ s[k] = Literal(1, 1) <=> expected[k] = 10
            /\ (/\ theory.paradigmModel.causalConditions = <<>>
                /\ theory.paradigmModel.strategies = <<>>
                /\ Len(theory.categoryRelationships) = 1
                /\ ~theory.saturationEvidence.categoriesSaturated)
               => s.credibility = Literal(0, 10)

\* a theory with one relationship and nothing else for credibility scored 0
C17_Witness ==
    /\ qualityPc = "returned"
    /\ validator = "validateGroundedTheory"
    /\ theory.paradigmModel.causalConditions = <<>>
    /\ theory.paradigmModel.strategies = <<>>
    /\ Len(theory.categoryRelationships) = 1
    /\ ~theory.saturationEvidence.categoriesSaturated
    /\ qualityAssessment.criteriaScores.credibility = Literal(0, 10)
    /\ qualityAssessment.criteriaScores.originality = Literal(1, 1)

----------------------------------------------------------------------------
(* Properties of formatList, generateStoryline and generatePropositions *)

\* the items as written, with the separators the list formatter puts
\* between them
RECURSIVE Listed(_, _)
Listed(items, k) ==
    IF k = 0 THEN ""
    ELSE IF k = 1 THEN items[1]
    ELSE IF k < Len(items) THEN Listed(items, k - 1) \o ", " \o items[k]
    ELSE IF k = 2 THEN items[1] \o " and " \o items[2]
    ELSE Listed(items, k - 1) \o ", and " \o items[k]

\* lowered is written: character by character, with every capital letter
\* replaced by its small letter
IsLowerCased(lowered, written) ==
    /\ Len(lowered) = Len(written)
    /\ \A i \in 1..Len(written) :
          LET w == SubSeq(written, i, i)
              l == SubSeq(lowered, i, i)
          IN  IF \E k \in 1..Len(UpperCaseChars) : UpperCaseChars[k] = w
              THEN \E k \in 1..Len(UpperCaseChars) :
                      UpperCaseChars[k] = w /\ LowerCaseChars[k] = l
              ELSE l = w

FormatListReturned == callee = "formatList" /\ calleePc = "returned"

\* C20: formatList maps the empty list to the empty string, [x] to x
\* lower-cased, [x, y] to "x and y" and three or more items to the lower-cased
\* items joined by ", " with ", and " before the last one, in input order; the
\* result is empty only for the empty list.
C20_FormatList ==
    FormatListReturned =>
        /\ IsLowerCased(callResult, Listed(callArgs[1], Len(callArgs[1])))
        /\ (callResult = "" => callArgs[1] = <<>>)

\* C20, amended: as above, but the result is empty for the empty list and for
\* the list whose only item is the empty string, and for no other list.
C20_FormatListEmptyItem ==
    FormatListReturned =>
        /\ IsLowerCased(callResult, Listed(callArgs[1], Len(callArgs[1])))
        /\ (callResult = "" <=> callArgs[1] \in {<<>>, <<"">>})

C20_Witness ==
    /\ FormatListReturned
    /\ callArgs[1] = <<"Seeking Help", "Trust", "time">>
    /\ callResult = "seeking help, trust, and time"

\* the places where part occurs in text
PlacesOf(text, part) ==
    {i \in 1..(Len(text) - Len(part) + 1) : SubSeq(text, i, i + Len(part) - 1) = part}

\* how each segment of the storyline begins, in the order of the segments
SegmentOpenings(themeCount) ==
    <<"This grounded theory explains the process of ",
      "This process is initiated by ",
      "It occurs within the context of ",
      "Participants engage in ",
      "These responses are shaped by ",
      "This ultimately results in ",
      "\n\nThe data reveals " \o ToString(themeCount) \o " interconnected themes">>

\* whether the list a segment reports is non-empty; the first and the last
\* segment report no list
SegmentDue(model) ==
    <<TRUE,
      model.causalConditions # <<>>,
      model.context # <<>>,
      model.strategies # <<>>,
      model.interveningConditions # <<>>,
      model.consequences # <<>>,
      TRUE>>

StorylineReturned == callee = "generateStoryline" /\ calleePc = "returned"

\* C19: the storyline holds the opening and the closing segment always and
\* each of the five middle segments exactly when its paradigm list is
\* non-empty, in the order phenomenon, causal conditions, context,
\* strategies, intervening conditions, consequences, closing paragraph with
\* the number of themes.
C19_StorylineSegments ==
    StorylineReturned =>
        LET openings == SegmentOpenings(Len(callArgs[3]))
            due == SegmentDue(callArgs[2])
            at == [k \in 1..Len(openings) |-> PlacesOf(callResult, openings[k])]
        IN  /\ at[1] = {1}
            /\ \A k \in 1..Len(openings) :
                  Cardinality(at[k]) = IF due[k] THEN 1 ELSE 0
            /\ \A j, k \in 1..Len(openings) :
                  j < k /\ due[j] /\ due[k] => \A p \in at[j], q \in at[k] : p < q

C19_Witness ==
    /\ StorylineReturned
    /\ callArgs[2].causalConditions # <<>>
    /\ callArgs[2].context = <<>>
    /\ callArgs[2].interveningConditions # <<>>
    /\ callArgs[2].consequences # <<>>
    /\ PlacesOf(callResult, "These responses are shaped by ") # {}
    /\ PlacesOf(callResult, "It occurs within the context of ") = {}

\* the first n positions of S, and the place of position i among S
FirstOf(S, n) == {i \in S : Cardinality({j \in S : j < i}) < n}

RankIn(S, i) == Cardinality({j \in S : j <= i})

\* the wording that goes with each type of relationship
TypeWording ==
    [causes |-> " directly causes ",
     triggers |-> " triggers the initiation of ",
     influences |-> " significantly influences ",
     enables |-> " enables or facilitates ",
     constrains |-> " constrains or limits ",
     precedes |-> " temporally precedes "]

PropositionsReturned == callee = "generatePropositions" /\ calleePc = "returned"

\* the relationships and the themes that get a sentence
StrongOnes == FirstOf({i \in 1..Len(callArgs[2]) : callArgs[2][i].strength = "strong"}, 5)

PrevalentOnes ==
    FirstOf({i \in 1..Len(callArgs[1]) :
                2 * callArgs[1][i].prevalence.num > callArgs[1][i].prevalence.den}, 3)

\* C18: generatePropositions returns one sentence for each of the first 5
\* strong relationships, in the order of the relationships, followed by one
\* sentence for each of the first 3 themes with prevalence > 0.5, in the order
\* of the themes; the three generic propositions are returned exactly when
\* both groups are empty; the result has between 1 and 8 entries.
C18_Propositions ==
    PropositionsReturned =>
        LET ts == callArgs[1]
            rels == callArgs[2]
            strongCount == Cardinality(StrongOnes)
            prevalentCount == Cardinality(PrevalentOnes)
        IN  /\ Len(callResult) \in 1..8
            /\ (callResult = GenericPropositions) <=> (strongCount + prevalentCount = 0)
            /\ strongCount + prevalentCount > 0 =>
                  /\ Len(callResult) = strongCount + prevalentCount
                  /\ \A i \in StrongOnes :
                        callResult[RankIn(StrongOnes, i)] =
                            rels[i].from \o TypeWording[rels[i].type] \o rels[i].to
                  /\ \A i \in PrevalentOnes :
                        callResult[strongCount + RankIn(PrevalentOnes, i)] =
                            ts[i].name \o " is a central process that appears across most participant experiences"

C18_Witness ==
    /\ PropositionsReturned
    /\ Cardinality({i \in 1..Len(callArgs[2]) : callArgs[2][i].strength = "strong"}) > 5
    /\ Cardinality({i \in 1..Len(callArgs[1]) :
                        2 * callArgs[1][i].prevalence.num > callArgs[1][i].prevalence.den}) > 3
    /\ callArgs[2][1] # callArgs[2][2]
    /\ Len(callResult) = 8

----------------------------------------------------------------------------
(* Further properties of TheoryEngine.buildGroundedTheory *)

ClosingSentence ==
    "This theory demonstrates that the process is not linear but involves continuous interaction between individual actions, contextual factors, and evolving outcomes."

StartsWith(text, part) == Len(text) >= Len(part) /\ SubSeq(text, 1, Len(part)) = part

EndsWith(text, part) ==
    Len(text) >= Len(part) /\ SubSeq(text, Len(text) - Len(part) + 1, Len(text)) = part

\* what buildGroundedTheory returns has a storyline; without themes it has
\* the placeholder core category, the shortest storyline and the generic
\* propositions, and without a strong relationship and a prevalent theme it
\* has the generic propositions
ReturnedTheoryDegrades ==
    theoryPc = "returned" =>
        /\ StartsWith(storyline, "This grounded theory explains the process of ")
        /\ EndsWith(storyline, ClosingSentence)
        /\ theoreticalPropositions # <<>>
        /\ title # ""
        /\ theoryThemes = <<>> =>
              /\ coreCategory.name = "Unknown Process"
              /\ title = "Theory of Unknown Process"
              /\ relationships = <<>>
              /\ theoreticalPropositions = GenericPropositions
              /\ storyline =
                    "This grounded theory explains the process of unknown process. "
                    \o "\n\nThe data reveals 0 interconnected themes that together explain how participants navigate unknown process. "
                    \o ClosingSentence
        /\ ( /\ \A i \in 1..Len(relationships) : relationships[i].strength # "strong"
             /\ \A i \in 1..Len(theoryThemes) :
                   2 * theoryThemes[i].prevalence.num <= theoryThemes[i].prevalence.den )
              => theoreticalPropositions = GenericPropositions

\* C21: buildGroundedTheory returns for every theme list, the empty one
\* included, and the theory it returns has a storyline; missing data only
\* shortens the storyline or yields the placeholder core category and the
\* generic propositions.
C21_NeverFails ==
    [][theoryPc = "called" => (theoryPc' = "returned" /\ ReturnedTheoryDegrades')]_vars

C21_Witness ==
    /\ theoryPc = "returned"
    /\ theoryThemes = <<>>
    /\ coreCategory.name = "Unknown Process"
    /\ Len(storyline) > Len(ClosingSentence)

\* "ing" at the end of a word of the code label
HasWordEndingInIng(code) ==
    \E i \in 2..(Len(code) - 2) :
        /\ SubSeq(code, i, i + 2) = <<"i", "n", "g">>
        /\ IsWordChar(code[i - 1])
        /\ i + 2 = Len(code) \/ ~IsWordChar(code[i + 3])

\* the theme's name matches no causal, context or strategy keyword
OnlyGerundsMakeStrategy(theme) ==
    /\ ~IncludesAny(LowerChars(theme.name),
                    CausalKeywords \cup ContextKeywords \cup StrategyKeywords)
    /\ \/ IncludesAny(LowerChars(theme.name), ConsequenceKeywords \cup InterveningKeywords)
       \/ 10 * theme.prevalence.num <= 3 * theme.prevalence.den

\* C26: a theme that only the gerund rule can send to strategies is in
\* strategies only if one of its supporting codes has a word that ends in
\* "ing"; "ing" inside a word, as in "single", does not count.
C26_GerundAtWordEnd ==
    theoryPc = "returned" =>
        \A i \in 1..Len(theoryThemes) :
            ( /\ OnlyGerundsMakeStrategy(theoryThemes[i])
              /\ \A j \in 1..Len(theoryThemes) :
                    theoryThemes[j].name = theoryThemes[i].name => j = i
              /\ theoryThemes[i].name \in Range(paradigmModel.strategies) )
            => \E k \in 1..Len(theoryThemes[i].supportingCodes) :
                  HasWordEndingInIng(Chars(theoryThemes[i].supportingCodes[k]))

\* the five lists of a paradigm model
FiveLists ==
    {"causalConditions", "context", "strategies", "consequences", "interveningConditions"}

\* C27: the five lists share out the names of the themes, each name in one
\* list and each list in the order of the themes, so their lengths sum to the
\* number of themes; the theme named as phenomenon stays in its list.
C27_FiveListsShareThemes ==
    theoryPc = "returned" =>
        /\ \E placed \in [1..Len(theoryThemes) -> FiveLists] :
              \A l \in FiveLists :
                  paradigmModel[l] =
                      LET chosen == SelectSeq([i \in 1..Len(theoryThemes) |-> i],
                                              LAMBDA i : placed[i] = l)
                      IN  [k \in 1..Len(chosen) |-> theoryThemes[chosen[k]].name]
        /\ Len(paradigmModel.causalConditions) + Len(paradigmModel.context)
              + Len(paradigmModel.strategies) + Len(paradigmModel.consequences)
              + Len(paradigmModel.interveningConditions) = Len(theoryThemes)
        /\ paradigmModel.phenomenon # "" =>
              \E l \in FiveLists : paradigmModel.phenomenon \in Range(paradigmModel[l])

\* two themes in one list, in their order, the first also the phenomenon
C27_Witness ==
    /\ theoryPc = "returned"
    /\ Len(theoryThemes) = 2
    /\ theoryThemes[1].name # theoryThemes[2].name
    /\ paradigmModel.strategies = <<theoryThemes[1].name, theoryThemes[2].name>>
    /\ paradigmModel.phenomenon = theoryThemes[1].name

----------------------------------------------------------------------------
(* Properties of validateMethodologyStructure and checkSaturation *)

MethodologyReturned == callee = "validateMethodologyStructure" /\ calleePc = "returned"

\* the orders of the stages that are not 0, smallest first
NonZeroOrders(stages) ==
    SelectSeq(SortedOrders(stages), LAMBDA o : o # Undefined /\ o # <<0>>)

\* every stage has an order, and the orders that are not 0 are 1, 2, ..., n
SequentialFromOne(stages) ==
    /\ \A i \in 1..Len(stages) : stages[i].order # Undefined
    /\ \A i \in 1..Len(NonZeroOrders(stages)) : NonZeroOrders(stages)[i] = <<i>>

NothingMissing(methodology) ==
    /\ methodology.id # "" /\ methodology.name # ""
    /\ methodology.version # "" /\ methodology.category # ""
    /\ methodology.stagesGiven /\ methodology.stages # <<>>
    /\ \A i \in 1..Len(methodology.stages) :
          /\ methodology.stages[i].name # ""
          /\ methodology.stages[i].description # ""
          /\ methodology.stages[i].promptTemplate # ""

\* C29: validateMethodologyStructure reports no stage-order error for stages
\* whose orders are 1, 2, ..., n, with or without stages of order 0, and is
\* then valid when nothing is missing; it reports the error when the orders
\* that are not 0 have a gap or do not start at 1.
C29_SequentialFromOne ==
    (MethodologyReturned /\ callArgs[1].stagesGiven
        /\ \A i \in 1..Len(callArgs[1].stages) : callArgs[1].stages[i].order # Undefined) =>
        /\ SequentialFromOne(callArgs[1].stages) <=>
              OrderError \notin Range(callResult.errors)
        /\ (SequentialFromOne(callArgs[1].stages) /\ NothingMissing(callArgs[1])) =>
              callResult.valid

SaturationReturned == callee = "checkSaturation" /\ calleePc = "returned"

\* the unique codes of the last three batches, added up
LastThreeTotal(batches) ==
    UniqueCodeCount(batches[Len(batches) - 2]) + UniqueCodeCount(batches[Len(batches) - 1])
        + UniqueCodeCount(batches[Len(batches)])

\* C30: with fewer than 3 batches checkSaturation returns not saturated with
\* confidence 0; otherwise, with rate = (mean unique codes of the last 3
\* batches) / (number of codes), saturated with confidence 0.8 for rate < 0.1,
\* saturated with confidence 0.6 for 0.1 <= rate < 0.2, and not saturated
\* with confidence 1 - rate otherwise; the confidence is always in [0, 1].
C30_SaturationConfidence ==
    SaturationReturned =>
        LET codeCount == callArgs[1]
            batches == callArgs[2]
        IN  /\ Len(batches) < 3 =>
                  ~callResult.saturated /\ callResult.confidence = Num(0)
            /\ (Len(batches) >= 3 /\ codeCount > 0) =>
                  LET total == LastThreeTotal(batches)
                  IN  /\ 10 * total < 3 * codeCount =>
                            callResult.saturated /\ callResult.confidence = Frac(8, 10)
                      /\ (10 * total >= 3 * codeCount /\ 5 * total < 3 * codeCount) =>
                            callResult.saturated /\ callResult.confidence = Frac(6, 10)
                      /\ 5 * total >= 3 * codeCount =>
                            /\ ~callResult.saturated
                            /\ callResult.confidence.den > 0
                            /\ callResult.confidence.num * 3 * codeCount =
                                  (3 * codeCount - total) * callResult.confidence.den
            /\ NumLe(Num(0), callResult.confidence)
            /\ NumLe(callResult.confidence, Num(1))

----------------------------------------------------------------------------
(* Properties of the tool operations *)

\* the response tells the caller that the quality is below the threshold:
\* an entry of its warnings or of its recommendations says so
CarriesBelowThreshold(response) ==
    \/ \E i \in 1..Len(response.recommendations) :
          response.recommendations[i] = CodebookBelowThreshold
    \/ /\ "warnings" \in DOMAIN response
       /\ \E i \in 1..Len(response.warnings) :
             response.warnings[i][1] = "Theme quality score is below threshold"

\* the errors an operation rejects with; none of them is about quality
ToolErrors ==
    {"Unexpected response type from Claude", "TypeError", "RangeError",
     "rejected by the service"}
    \cup {"Failed to parse " \o ParsedWhat(operation) \o " from Claude response" :
            operation \in {"refineCodebook", "extractThemes", "buildGroundedTheory"}}

\* C22: in each of refineCodebook, extractThemes and buildGroundedTheory the
\* response carries a below-threshold warning exactly when the assessment's
\* passesQualityThreshold is false, and an operation that has assessed the
\* quality returns its response whatever the assessment says
C22_WarningIffBelowThreshold ==
    /\ toolPc = "returned" =>
          (CarriesBelowThreshold(toolResponse)
              <=> ~toolAssessment.passesQualityThreshold)
    /\ toolPc = "failed" => (toolError \in ToolErrors /\ toolAssessment = NoAssessment)

\* the text has a part that parses as JSON
HoldsJson(text) ==
    \E i \in 1..Len(text) : \E j \in i..Len(text) : SubSeq(text, i, j) = JsonDocument

ToolEnded == toolPc \in {"returned", "failed"}

\* C23: when the text of the reply has no part that parses as JSON, the
\* operation ends in the parse failure with no response object, and the
\* service has been called once; no operation calls the service twice
C23_FailedParseIsFinal ==
    /\ serviceCalls <= 1
    /\ (ToolEnded /\ content.type = "text" /\ ~HoldsJson(content.text)) =>
          /\ toolPc = "failed"
          /\ toolError = "Failed to parse " \o ParsedWhat(tool) \o " from Claude response"
          /\ toolResponse = NoToolResponse
          /\ serviceCalls = 1

C23_Witness ==
    /\ tool = "buildGroundedTheory"
    /\ toolPc = "failed"
    /\ content.type = "text"
    /\ content.text = "I cannot analyse these data."
    /\ toolError = "Failed to parse grounded theory from Claude response"
    /\ serviceCalls = 1

\* the codes of h that lie on a chain of at least n codes starting at one of
\* its roots, a chain following parent->child entries
RECURSIVE ChainEnds(_, _)
ChainEnds(h, n) ==
    IF n = 1 THEN Range(h.rootCodes)
    ELSE {c \in CodeIds : \E p \in ChainEnds(h, n - 1) \cap DOMAIN h.relationships :
                              c \in Range(h.relationships[p])}

\* the number of codes on the longest such chain, 0 without roots
LongestChain(h) ==
    MaxOfSet({0} \cup {n \in 1..MaxCodes : ChainEnds(h, n) # {}})

\* the step function of the hierarchy criterion
HierarchyStep(depth) ==
    IF depth = 0 THEN Frac(5, 10)
    ELSE IF depth \in 1..3 THEN Num(1)
    ELSE Frac(6, 10)

RefinedReturned == tool = "refineCodebook" /\ toolPc = "returned"

\* C28: for a codebook that refineCodebook returns, the depth in
\* qualityMetrics.hierarchyDepth and the one in summary.hierarchyLevels are
\* both the depth of the codebook's own codeHierarchy, and the validator's
\* hierarchy score is the step function 0 -> 0.5, 1..3 -> 1.0, more -> 0.6
\* of that depth
C28_OneHierarchyDepth ==
    RefinedReturned =>
        LET depth == LongestChain(toolResponse.codebook.codeHierarchy)
        IN  /\ toolResponse.codebook.qualityMetrics.hierarchyDepth = depth
            /\ toolResponse.summary.hierarchyLevels = depth
            /\ toolAssessment.criteriaScores.hierarchy = HierarchyStep(depth)

C28_Witness ==
    /\ RefinedReturned
    /\ toolResponse.summary.hierarchyLevels = 4
    /\ toolAssessment.criteriaScores.hierarchy = Frac(6, 10)
    /\ Len(toolResponse.codebook.codes) > 0

----------------------------------------------------------------------------
(* Properties of calls in progress at once *)

\* what a call returns when it runs alone on the list it was handed
AloneResult(kind, list) ==
    IF kind = "validateThemes"
    THEN validateThemes(list, MaxOfSet(DataPointTotals))
    ELSE TheoryOf(identifyCoreCategory(list), buildParadigmModel(list),
                  mapCategoryRelationships(list), list)

\* C25: however the steps of two validation or theory-building calls are
\* interleaved, the array a call was handed holds what it held when the call
\* was entered, in the same order, and a call that has returned has returned
\* what it returns when it runs alone on that array
C25_CallsDoNotInterfere ==
    \A c \in Callers :
        /\ arrays[calls[c].themes] = calls[c].given
        /\ calls[c].pc = "returned" =>
              calls[c].result = AloneResult(calls[c].kind, calls[c].given)

\* two theory-building calls on one array whose second theme is the more
\* prevalent: one has returned while the other has only sorted its copy
C25_Witness ==
    /\ \A c \in Callers : calls[c].kind = "buildGroundedTheory" /\ calls[c].themes = 1
    /\ Len(arrays[1]) = 2
    /\ NumLt(arrays[1][1].prevalence, arrays[1][2].prevalence)
    /\ calls[1].pc = "core"
    /\ calls[1].coreCategory = arrays[1][2]
    /\ calls[2].pc = "returned"
====
